---- MODULE Spec2Model ----
(***************************************************************************)
(* Provider Error Proxy (scripts/provider-error-proxy/proxy.py).           *)
(*                                                                         *)
(* The proxy keeps one process-global injection state (error_mode,         *)
(* error_count, error_percentage) behind a threading.Lock.  Requests are   *)
(* handled by coroutines of one asyncio event loop (one handler runs at a  *)
(* time between two awaits); operator commands are read by a separate      *)
(* thread (stdin_reader), which interleaves with a handler at every lock   *)
(* boundary.                                                               *)
(*                                                                         *)
(* Strings are sequences of one-character strings.  A float is modelled as *)
(* the exact decimal <<num, den>> (den a power of ten, in lowest decimal   *)
(* form): the code only divides by 100 and compares with 0.0 and 1.0, and  *)
(* the commands of the model are far shorter than the 17 digits at which   *)
(* binary rounding would matter.                                           *)
(***************************************************************************)
EXTENDS Integers, Sequences, FiniteSets, TLC

\* ------------------------------------------------------------------ bounds
\* Number of requests the listener accepts in one behaviour.
MaxRequests == 2
\* Number of lines the control thread reads from standard input.
MaxCommands == 1

\* -------------------------------------------------------------- ErrorMode
NO_ERROR == "NO_ERROR"
CONTEXT_LENGTH == "CONTEXT_LENGTH"
RATE_LIMIT == "RATE_LIMIT"
SERVER_ERROR == "SERVER_ERROR"
ErrorMode == {NO_ERROR, CONTEXT_LENGTH, RATE_LIMIT, SERVER_ERROR}
\* Python's None (parse_command returns it as the mode of a failed parse).
None == "None"

\* ---------------------------------------------------------------- strings
Digits == {"0", "1", "2", "3", "4", "5", "6", "7", "8", "9"}

DigitVal(c) ==
  CASE c = "0" -> 0 [] c = "1" -> 1 [] c = "2" -> 2 [] c = "3" -> 3
    [] c = "4" -> 4 [] c = "5" -> 5 [] c = "6" -> 6 [] c = "7" -> 7
    [] c = "8" -> 8 [] c = "9" -> 9

\* str.lower() of one character.
LowerChar(c) ==
  CASE c = "A" -> "a" [] c = "B" -> "b" [] c = "C" -> "c" [] c = "D" -> "d"
    [] c = "E" -> "e" [] c = "F" -> "f" [] c = "G" -> "g" [] c = "H" -> "h"
    [] c = "I" -> "i" [] c = "J" -> "j" [] c = "K" -> "k" [] c = "L" -> "l"
    [] c = "M" -> "m" [] c = "N" -> "n" [] c = "O" -> "o" [] c = "P" -> "p"
    [] c = "Q" -> "q" [] c = "R" -> "r" [] c = "S" -> "s" [] c = "T" -> "t"
    [] c = "U" -> "u" [] c = "V" -> "v" [] c = "W" -> "w" [] c = "X" -> "x"
    [] c = "Y" -> "y" [] c = "Z" -> "z"
    [] OTHER -> c

\* str.lower()
Lower(s) == [i \in 1..Len(s) |-> LowerChar(s[i])]

\* `sub in s` for strings
Contains(sub, s) ==
  \E i \in 0..(Len(s) - Len(sub)) : SubSeq(s, i + 1, i + Len(sub)) = sub

\* White space as str.strip() sees it; of it the model's inputs use the blank.
IsSpace(c) == c = " "

RECURSIVE LStrip(_)
LStrip(s) == IF s # <<>> /\ IsSpace(Head(s)) THEN LStrip(Tail(s)) ELSE s

RECURSIVE RStrip(_)
RStrip(s) ==
  IF s # <<>> /\ IsSpace(s[Len(s)]) THEN RStrip(SubSeq(s, 1, Len(s) - 1)) ELSE s

\* str.strip()
Strip(s) == RStrip(LStrip(s))

\* str.replace(" ", "")
RemoveBlanks(s) == SelectSeq(s, LAMBDA c : c # " ")

\* ----------------------------------------------------------------- floats
RECURSIVE Pow10(_)
Pow10(n) == IF n = 0 THEN 1 ELSE 10 * Pow10(n - 1)

\* The decimal num/den with the common powers of ten removed.  A denominator
\* of 0 stands for the values that are no number: nan is <<0, 0>>, inf is
\* <<1, 0>>, -inf is <<-1, 0>>.
RECURSIVE Norm(_)
Norm(p) ==
  IF p[2] = 0 THEN p
  ELSE IF p[1] = 0 THEN <<0, 1>>
  ELSE IF p[2] > 1 /\ p[1] % 10 = 0 THEN Norm(<<p[1] \div 10, p[2] \div 10>>)
  ELSE p

FloatZero == <<0, 1>>
FloatOne == <<1, 1>>
FloatNaN == <<0, 0>>
FloatInf == <<1, 0>>
\* a < b, where one of the two is finite: every comparison with nan is false,
\* inf is above and -inf below every finite value.
FloatLt(a, b) == a[1] * b[2] < b[1] * a[2]
FloatGt(a, b) == FloatLt(b, a)
\* x / 100.0
FloatDiv100(a) == Norm(<<a[1], a[2] * 100>>)

\* The value of a string of decimal digits.
RECURSIVE DigitsVal(_)
DigitsVal(s) ==
  IF s = <<>> THEN 0 ELSE 10 * DigitsVal(SubSeq(s, 1, Len(s) - 1)) + DigitVal(s[Len(s)])

AllDigits(s) == \A i \in 1..Len(s) : s[i] \in Digits

\* The string without its leading sign, and the sign.
Unsigned(s) == IF s # <<>> /\ s[1] \in {"-", "+"} THEN Tail(s) ELSE s
Sign(s) == IF s # <<>> /\ s[1] = "-" THEN -1 ELSE 1

\* int(s) raises ValueError unless s is an optional sign and one or more digits
\* (no blank is left in s, and the inputs hold no underscore).
IntOk(s) == Unsigned(s) # <<>> /\ AllDigits(Unsigned(s))
IntVal(s) == Sign(s) * DigitsVal(Unsigned(s))

\* Position of the first "." of s, 0 when there is none.
DotPos(s) ==
  IF \E i \in 1..Len(s) : s[i] = "."
  THEN CHOOSE i \in 1..Len(s) : s[i] = "." /\ \A j \in 1..(i - 1) : s[j] # "."
  ELSE 0

\* The spellings float() takes for the values that are no number, in any case
\* of the letters.
NaNWords == {<<"n", "a", "n">>}
InfWords == {<<"i", "n", "f">>, <<"i", "n", "f", "i", "n", "i", "t", "y">>}

\* float(s) raises ValueError unless s is an optional sign and then either
\* digits with at most one "." and at least one digit, or nan, inf or infinity
\* (the inputs hold no exponent and no underscore).
FloatOk(s) ==
  LET u == Unsigned(s)
      d == DotPos(u)
      ip == IF d = 0 THEN u ELSE SubSeq(u, 1, d - 1)
      fp == IF d = 0 THEN <<>> ELSE SubSeq(u, d + 1, Len(u))
  IN \/ AllDigits(ip) /\ AllDigits(fp) /\ Len(ip) + Len(fp) > 0
     \/ Lower(u) \in NaNWords \cup InfWords

FloatVal(s) ==
  LET u == Unsigned(s)
      d == DotPos(u)
      ip == IF d = 0 THEN u ELSE SubSeq(u, 1, d - 1)
      fp == IF d = 0 THEN <<>> ELSE SubSeq(u, d + 1, Len(u))
  IN IF Lower(u) \in NaNWords THEN FloatNaN
     ELSE IF Lower(u) \in InfWords THEN <<Sign(s), 0>>
     ELSE Norm(<<Sign(s) * (DigitsVal(ip) * Pow10(Len(fp)) + DigitsVal(fp)), Pow10(Len(fp))>>)

\* ---------------------------------------------------------- parse_command
ParseError(kind, detail) ==
  [mode |-> None, count |-> 0, percentage |-> FloatZero, error_msg |-> <<kind, detail>>]

\* error_msg of a successful parse (Python's None; it is tested for truth).
NoMsg == <<>>

ParseOk(mode, count, percentage) ==
  [mode |-> mode, count |-> count, percentage |-> percentage, error_msg |-> NoMsg]

mode_map(letter) ==
  CASE letter = "n" -> NO_ERROR
    [] letter = "c" -> CONTEXT_LENGTH
    [] letter = "r" -> RATE_LIMIT
    [] letter = "u" -> SERVER_ERROR
    [] OTHER -> None

\* parse_value as it would be if the percentage forms left the count at its
\* default of 1.
parse_value_KeepCount(mode, value_str) ==
  IF value_str = <<"*">> THEN ParseOk(mode, 1, FloatOne)
  ELSE IF value_str[Len(value_str)] = "%" THEN
    LET num == SubSeq(value_str, 1, Len(value_str) - 1) IN
    IF ~FloatOk(num) THEN ParseError("Invalid value", value_str)
    ELSE LET percentage == FloatDiv100(FloatVal(num)) IN
      IF FloatLt(percentage, FloatZero) \/ FloatGt(percentage, FloatOne)
      THEN ParseError("Invalid percentage", percentage)
      ELSE ParseOk(mode, 1, percentage)
  ELSE IF Contains(<<".">>, value_str) THEN
    IF ~FloatOk(value_str) THEN ParseError("Invalid value", value_str)
    ELSE LET percentage == FloatVal(value_str) IN
      IF FloatLt(percentage, FloatZero) \/ FloatGt(percentage, FloatOne)
      THEN ParseError("Invalid percentage", percentage)
      ELSE ParseOk(mode, 1, percentage)
  ELSE
    IF ~IntOk(value_str) THEN ParseError("Invalid value", value_str)
    ELSE LET count == IntVal(value_str) IN
      IF count < 0 THEN ParseError("Invalid count", count)
      ELSE ParseOk(mode, count, FloatZero)

\* The quantity after the letter: the try block of parse_command.
parse_value(mode, value_str) ==
  IF value_str = <<"*">> THEN ParseOk(mode, 0, FloatOne)
  ELSE IF value_str[Len(value_str)] = "%" THEN
    LET num == SubSeq(value_str, 1, Len(value_str) - 1) IN
    IF ~FloatOk(num) THEN ParseError("Invalid value", value_str)
    ELSE LET percentage == FloatDiv100(FloatVal(num)) IN
      IF FloatLt(percentage, FloatZero) \/ FloatGt(percentage, FloatOne)
      THEN ParseError("Invalid percentage", percentage)
      ELSE ParseOk(mode, 0, percentage)
  ELSE IF Contains(<<".">>, value_str) THEN
    IF ~FloatOk(value_str) THEN ParseError("Invalid value", value_str)
    ELSE LET percentage == FloatVal(value_str) IN
      IF FloatLt(percentage, FloatZero) \/ FloatGt(percentage, FloatOne)
      THEN ParseError("Invalid percentage", percentage)
      ELSE ParseOk(mode, 0, percentage)
  ELSE
    IF ~IntOk(value_str) THEN ParseError("Invalid value", value_str)
    ELSE LET count == IntVal(value_str) IN
      IF count < 0 THEN ParseError("Invalid count", count)
      ELSE ParseOk(mode, count, FloatZero)

\* parse_command as it would be without lower() on the letter.
parse_command_CaseSensitive(command) ==
  LET command_no_space == RemoveBlanks(Strip(command)) IN
  IF command_no_space = <<>> THEN ParseError("Empty command", <<>>)
  ELSE
    LET error_letter == command_no_space[1] IN
    IF mode_map(error_letter) = None
    THEN ParseError("Invalid command", error_letter)
    ELSE IF Len(command_no_space) > 1
      THEN parse_value(mode_map(error_letter), Tail(command_no_space))
      ELSE ParseOk(mode_map(error_letter), 1, FloatZero)

parse_command(command) ==
  LET command_no_space == RemoveBlanks(Strip(command)) IN
  IF command_no_space = <<>> THEN ParseError("Empty command", <<>>)
  ELSE
    LET error_letter == LowerChar(command_no_space[1]) IN
    IF mode_map(error_letter) = None
    THEN ParseError("Invalid command", error_letter)
    ELSE IF Len(command_no_space) > 1
      THEN parse_value(mode_map(error_letter), Tail(command_no_space))
      ELSE ParseOk(mode_map(error_letter), 1, FloatZero)

\* ------------------------------------------------------- provider registry
Providers == {"openai", "anthropic", "google", "openrouter", "tetrate", "databricks"}

\* ERROR_CONFIGS[provider][mode]: the status of the entry; its body is the
\* dict of that entry (the 18 bodies are pairwise different), named here by
\* the entry's keys.
ERROR_CONFIGS(provider, mode) ==
  [status |->
     CASE mode = CONTEXT_LENGTH -> 400
       [] mode = RATE_LIMIT -> 429
       [] mode = SERVER_ERROR ->
            CASE provider = "anthropic" -> 529
              [] provider \in {"google", "tetrate"} -> 503
              [] OTHER -> 500,
   body |-> <<provider, mode>>]

\* The lookup as it would be if a provider without a table got the openai
\* server-error entry whatever the mode.
error_config_NoTable(provider, mode_before_check) ==
  IF provider \in Providers /\ mode_before_check \in {CONTEXT_LENGTH, RATE_LIMIT, SERVER_ERROR}
  THEN ERROR_CONFIGS(provider, mode_before_check)
  ELSE ERROR_CONFIGS("openai", SERVER_ERROR)

\* ERROR_CONFIGS.get(provider, ERROR_CONFIGS['openai']).get(
\*     mode_before_check, ERROR_CONFIGS['openai'][ErrorMode.SERVER_ERROR])
error_config(provider, mode_before_check) ==
  LET table == IF provider \in Providers THEN provider ELSE "openai" IN
  IF mode_before_check \in {CONTEXT_LENGTH, RATE_LIMIT, SERVER_ERROR}
  THEN ERROR_CONFIGS(table, mode_before_check)
  ELSE ERROR_CONFIGS("openai", SERVER_ERROR)

ALWAYS_FORWARD_PATHS ==
  << <<"/", "o", "i", "d", "c", "/">>,
     <<"/", ".", "w", "e", "l", "l", "-", "k", "n", "o", "w", "n", "/">>,
     <<"/", "o", "a", "u", "t", "h">>,
     <<"/", "a", "p", "i", "/", "2", ".", "0", "/">> >>

\* should_always_forward as it would be if only the first rule were tried.
should_always_forward_FirstOnly(request) ==
  Contains(ALWAYS_FORWARD_PATHS[1], request.path)

\* should_always_forward(request)
should_always_forward(request) ==
  \E i \in 1..Len(ALWAYS_FORWARD_PATHS) : Contains(ALWAYS_FORWARD_PATHS[i], request.path)

HasHeader(request, name) == name \in DOMAIN request.headers

\* detect_provider as it would be with the header checks ahead of the
\* databricks path markers.
detect_provider_HeadersFirst(request) ==
  LET path == Lower(request.path) IN
  IF HasHeader(request, "x-api-key") THEN "anthropic"
  ELSE IF HasHeader(request, "x-goog-api-key") THEN "google"
  ELSE IF \/ Contains(<<"/", "s", "e", "r", "v", "i", "n", "g", "-", "e", "n", "d", "p", "o", "i", "n", "t", "s", "/">>, path)
          \/ Contains(<<"/", "a", "p", "i", "/", "2", ".", "0", "/">>, path)
          \/ Contains(<<"/", "o", "i", "d", "c", "/">>, path)
  THEN "databricks"
  ELSE IF /\ HasHeader(request, "authorization")
          /\ Contains(<<"b", "e", "a", "r", "e", "r">>, Lower(request.headers["authorization"]))
  THEN
    IF \/ Contains(<<"a", "n", "t", "h", "r", "o", "p", "i", "c">>, path)
       \/ Contains(<<"m", "e", "s", "s", "a", "g", "e", "s">>, path)
    THEN "anthropic"
    ELSE IF \/ Contains(<<"g", "o", "o", "g", "l", "e">>, path)
            \/ Contains(<<"g", "e", "n", "e", "r", "a", "t", "i", "v", "e", "l", "a", "n", "g", "u", "a", "g", "e">>, path)
    THEN "google"
    ELSE IF Contains(<<"o", "p", "e", "n", "r", "o", "u", "t", "e", "r">>, path) THEN "openrouter"
    ELSE IF Contains(<<"t", "e", "t", "r", "a", "t", "e">>, path) THEN "tetrate"
    ELSE IF Contains(<<"d", "a", "t", "a", "b", "r", "i", "c", "k", "s">>, path) THEN "databricks"
    ELSE "openai"
  ELSE "openai"

\* detect_provider as it would be with the test for tetrate ahead of the
\* test for openrouter.
detect_provider_TetrateFirst(request) ==
  LET path == Lower(request.path) IN
  IF \/ Contains(<<"/", "s", "e", "r", "v", "i", "n", "g", "-", "e", "n", "d", "p", "o", "i", "n", "t", "s", "/">>, path)
     \/ Contains(<<"/", "a", "p", "i", "/", "2", ".", "0", "/">>, path)
     \/ Contains(<<"/", "o", "i", "d", "c", "/">>, path)
  THEN "databricks"
  ELSE IF HasHeader(request, "x-api-key") THEN "anthropic"
  ELSE IF HasHeader(request, "x-goog-api-key") THEN "google"
  ELSE IF /\ HasHeader(request, "authorization")
          /\ Contains(<<"b", "e", "a", "r", "e", "r">>, Lower(request.headers["authorization"]))
  THEN
    IF \/ Contains(<<"a", "n", "t", "h", "r", "o", "p", "i", "c">>, path)
       \/ Contains(<<"m", "e", "s", "s", "a", "g", "e", "s">>, path)
    THEN "anthropic"
    ELSE IF \/ Contains(<<"g", "o", "o", "g", "l", "e">>, path)
            \/ Contains(<<"g", "e", "n", "e", "r", "a", "t", "i", "v", "e", "l", "a", "n", "g", "u", "a", "g", "e">>, path)
    THEN "google"
    ELSE IF Contains(<<"t", "e", "t", "r", "a", "t", "e">>, path) THEN "tetrate"
    ELSE IF Contains(<<"o", "p", "e", "n", "r", "o", "u", "t", "e", "r">>, path) THEN "openrouter"
    ELSE IF Contains(<<"d", "a", "t", "a", "b", "r", "i", "c", "k", "s">>, path) THEN "databricks"
    ELSE "openai"
  ELSE "openai"

\* detect_provider(request)
detect_provider(request) ==
  LET path == Lower(request.path) IN
  IF \/ Contains(<<"/", "s", "e", "r", "v", "i", "n", "g", "-", "e", "n", "d", "p", "o", "i", "n", "t", "s", "/">>, path)
     \/ Contains(<<"/", "a", "p", "i", "/", "2", ".", "0", "/">>, path)
     \/ Contains(<<"/", "o", "i", "d", "c", "/">>, path)
  THEN "databricks"
  ELSE IF HasHeader(request, "x-api-key") THEN "anthropic"
  ELSE IF HasHeader(request, "x-goog-api-key") THEN "google"
  ELSE IF /\ HasHeader(request, "authorization")
          /\ Contains(<<"b", "e", "a", "r", "e", "r">>, Lower(request.headers["authorization"]))
  THEN
    IF \/ Contains(<<"a", "n", "t", "h", "r", "o", "p", "i", "c">>, path)
       \/ Contains(<<"m", "e", "s", "s", "a", "g", "e", "s">>, path)
    THEN "anthropic"
    ELSE IF \/ Contains(<<"g", "o", "o", "g", "l", "e">>, path)
            \/ Contains(<<"g", "e", "n", "e", "r", "a", "t", "i", "v", "e", "l", "a", "n", "g", "u", "a", "g", "e">>, path)
    THEN "google"
    ELSE IF Contains(<<"o", "p", "e", "n", "r", "o", "u", "t", "e", "r">>, path) THEN "openrouter"
    ELSE IF Contains(<<"t", "e", "t", "r", "a", "t", "e">>, path) THEN "tetrate"
    ELSE IF Contains(<<"d", "a", "t", "a", "b", "r", "i", "c", "k", "s">>, path) THEN "databricks"
    ELSE "openai"
  ELSE "openai"

\* ------------------------------------------------------------------ inputs
Bearer == <<"B", "e", "a", "r", "e", "r", " ", "k">>

\* The requests a client sends: path and headers (header names in lower case,
\* as the case-insensitive header map finds them).
RequestInputs ==
  { [path |-> <<"/", "v", "1", "/", "c", "h", "a", "t">>,
     headers |-> [h \in {"authorization"} |-> Bearer]],
    [path |-> <<"/", "v", "1", "/", "m", "e", "s", "s", "a", "g", "e", "s">>,
     headers |-> [h \in {"x-api-key"} |-> <<"k">>]],
    [path |-> <<"/", "o", "i", "d", "c", "/", "t">>,
     headers |-> [h \in {"authorization"} |-> Bearer]],
    [path |-> <<"/", "o", "a", "u", "t", "h", "2">>,
     headers |-> [h \in {"x-api-key"} |-> <<"k">>]] }

\* The lines an operator types (and the values of --mode).
Commands ==
  { <<"n">>, <<"n", " ", "*">>, <<"c">>, <<"C", " ", "2">>, <<"c", " ", "0">>,
    <<"r", " ", "5", "0", "%">>, <<"r", "0", ".", "5">>, <<"u", " ", "*">>,
    <<"x">>, <<"c", " ", "-", "1">>, <<"r", " ", "1", "5", "0", "%">>,
    <<>>, <<" ", "Q">> }

\* The lines typed where the control loop is looked at closely.
\* Lines that parse, the quit line, and one line of each kind that does not
\* parse: unknown letter, percentage out of range (both forms), negative count,
\* quantity that is no number, empty line, blank line.
CtlGoodLines == { <<"c", " ", "2">>, <<"r", " ", "5", "0", "%">> }
CtlBadLines ==
  { <<"x">>, <<"r", " ", "1", "5", "0", "%">>, <<"u", "1", ".", "5">>,
    <<"c", " ", "-", "1">>, <<"u", " ", "a", "b">>, <<>>, <<" ">> }
CtlLines == CtlGoodLines \cup CtlBadLines \cup { <<" ", "Q">> }

\* The command lines where the life of the process is looked at closely.
\* The values of --mode: none, two that parse, and three that do not.
LifeGoodArgs == { <<"c", " ", "2">>, <<"r", " ", "5", "0", "%">> }
LifeBadArgs == { <<"x">>, <<" ">>, <<"r", " ", "1", "5", "0", "%">> }
LifeArgs == {<<>>} \cup LifeGoodArgs \cup LifeBadArgs

LifeLines == { <<"c">>, <<"x">>, <<"q">> }

\* parse_command on every line of the model, stripped or not, computed once.
AllLines == Commands \cup CtlLines \cup LifeLines \cup LifeArgs
parsed == [c \in AllLines \cup {Strip(l) : l \in AllLines} |-> parse_command(c)]

\* random.random(): values of [0.0, 1.0)
RandomValues == {<<0, 1>>, <<5, 10>>, <<999, 1000>>}

\* ------------------------------------------------------------------- state
VARIABLES
  error_mode,        \* ErrorProxy.error_mode
  error_count,       \* ErrorProxy.error_count
  error_percentage,  \* ErrorProxy.error_percentage
  request_count,     \* ErrorProxy.request_count
  session,           \* ErrorProxy.session: "none", "open", "closed"
  main_pc,           \* where main() is
  stdin_pc,          \* where the stdin_reader thread is
  cmds_read,         \* lines the stdin_reader has read
  stop_scheduled,    \* shutdown_server(loop) is scheduled on the loop
  running,           \* the request whose handler holds the event loop, or 0
  reqs,              \* the requests received, by number
  last_set,          \* history: the arguments of the last set_error_mode
  decided,           \* history: the requests that ran should_inject_error since
  args_mode,         \* history: <<the value of --mode>> once main() has read it
  lines_read,        \* history: the lines the stdin_reader has read
  printed,           \* what the stdin_reader printed last
  exit_code,         \* the exit status of the process, NotExited while it runs
  streams,           \* the streamed relays, by request number
  input,             \* the argument of the function under test
  output,            \* <<its result>> once it has been applied
  lock,              \* ErrorProxy.lock: "free", or the thread that holds it
  pending,           \* the stdin_reader's locals: <<the parse it installs>>
  observed           \* history: <<what the last holder of the lock read>>

vars ==
  <<error_mode, error_count, error_percentage, request_count, session, main_pc,
    stdin_pc, cmds_read, stop_scheduled, running, reqs, last_set, decided,
    args_mode, lines_read, printed, exit_code, streams, input, output,
    lock, pending, observed>>

\* The lock, closely: Spec and the other specifications take and release it
\* within one step.
locking == <<lock, pending, observed>>

\* What the specifications of the single concerns record on top of the proxy's
\* state; Spec leaves it alone.
aux == <<args_mode, lines_read, printed, exit_code, streams, input, output, locking>>

NotExited == -1

injection == <<error_mode, error_count, error_percentage>>

NoResponse == [kind |-> "none", status |-> 0, body |-> <<>>]

\* ErrorProxy.__init__ and the start of main()
InitProxy ==
  /\ error_mode = NO_ERROR
  /\ error_count = 0
  /\ error_percentage = FloatZero
  /\ request_count = 0
  /\ session = "none"
  /\ main_pc = "main"
  /\ stdin_pc = "off"
  /\ cmds_read = 0
  /\ stop_scheduled = FALSE
  /\ running = 0
  /\ reqs = <<>>
  /\ last_set = [mode |-> NO_ERROR, count |-> 0, percentage |-> FloatZero]
  /\ decided = <<>>

\* Nothing read, printed or relayed yet, and the process running.
InitRecords ==
  /\ args_mode = <<>>
  /\ lines_read = <<>>
  /\ printed = <<>>
  /\ exit_code = NotExited
  /\ streams = <<>>
  /\ lock = "free"
  /\ pending = <<>>
  /\ observed = <<>>

Init == InitProxy /\ InitRecords /\ input = <<>> /\ output = <<>>

\* ------------------------------------------------------------- ErrorProxy
\* set_error_mode(mode, count, percentage): the three fields, under the lock.
set_error_mode(mode, count, percentage) ==
  /\ error_mode' = mode
  /\ error_count' = count
  /\ error_percentage' = percentage
  /\ last_set' = [mode |-> mode, count |-> count, percentage |-> percentage]
  /\ decided' = <<>>

\* should_inject_error as it would be without the decrement of the count.
should_inject_error_NoDecrement(rnd) ==
  IF error_mode = NO_ERROR
  THEN [ret |-> FALSE, mode |-> error_mode, count |-> error_count]
  ELSE IF FloatGt(error_percentage, FloatZero)
  THEN [ret |-> FloatLt(rnd, error_percentage), mode |-> error_mode, count |-> error_count]
  ELSE IF error_count > 0
  THEN [ret |-> TRUE, mode |-> error_mode, count |-> error_count]
  ELSE IF error_count = 0 /\ error_percentage = FloatZero
  THEN [ret |-> FALSE, mode |-> NO_ERROR, count |-> error_count]
  ELSE [ret |-> FALSE, mode |-> error_mode, count |-> error_count]

\* should_inject_error as it would be if an error injected in percentage mode
\* switched the mode back to NO_ERROR, as the last error of a count does.
should_inject_error_PctExpires(rnd) ==
  IF error_mode = NO_ERROR
  THEN [ret |-> FALSE, mode |-> error_mode, count |-> error_count]
  ELSE IF FloatGt(error_percentage, FloatZero)
  THEN [ret |-> FloatLt(rnd, error_percentage),
        mode |-> IF FloatLt(rnd, error_percentage) THEN NO_ERROR ELSE error_mode,
        count |-> error_count]
  ELSE IF error_count > 0
  THEN [ret |-> TRUE,
        mode |-> IF error_count - 1 = 0 THEN NO_ERROR ELSE error_mode,
        count |-> error_count - 1]
  ELSE IF error_count = 0 /\ error_percentage = FloatZero
  THEN [ret |-> FALSE, mode |-> NO_ERROR, count |-> error_count]
  ELSE [ret |-> FALSE, mode |-> error_mode, count |-> error_count]

\* should_inject_error as it would be without the test for NO_ERROR.
should_inject_error_NoModeCheck(rnd) ==
  IF FloatGt(error_percentage, FloatZero)
  THEN [ret |-> FloatLt(rnd, error_percentage), mode |-> error_mode, count |-> error_count]
  ELSE IF error_count > 0
  THEN [ret |-> TRUE,
        mode |-> IF error_count - 1 = 0 THEN NO_ERROR ELSE error_mode,
        count |-> error_count - 1]
  ELSE IF error_count = 0 /\ error_percentage = FloatZero
  THEN [ret |-> FALSE, mode |-> NO_ERROR, count |-> error_count]
  ELSE [ret |-> FALSE, mode |-> error_mode, count |-> error_count]

\* should_inject_error as it would be if the branch for count 0 returned
\* False without the switch back to NO_ERROR.
should_inject_error_NoZeroReset(rnd) ==
  IF error_mode = NO_ERROR
  THEN [ret |-> FALSE, mode |-> error_mode, count |-> error_count]
  ELSE IF FloatGt(error_percentage, FloatZero)
  THEN [ret |-> FloatLt(rnd, error_percentage), mode |-> error_mode, count |-> error_count]
  ELSE IF error_count > 0
  THEN [ret |-> TRUE,
        mode |-> IF error_count - 1 = 0 THEN NO_ERROR ELSE error_mode,
        count |-> error_count - 1]
  ELSE [ret |-> FALSE, mode |-> error_mode, count |-> error_count]

\* should_inject_error(), under the lock: what it returns and the mode and the
\* count it leaves, given the value random.random() draws.
should_inject_error(rnd) ==
  IF error_mode = NO_ERROR
  THEN [ret |-> FALSE, mode |-> error_mode, count |-> error_count]
  ELSE IF FloatGt(error_percentage, FloatZero)
  THEN [ret |-> FloatLt(rnd, error_percentage), mode |-> error_mode, count |-> error_count]
  ELSE IF error_count > 0
  THEN [ret |-> TRUE,
        mode |-> IF error_count - 1 = 0 THEN NO_ERROR ELSE error_mode,
        count |-> error_count - 1]
  ELSE IF error_count = 0 /\ error_percentage = FloatZero
  THEN [ret |-> FALSE, mode |-> NO_ERROR, count |-> error_count]
  ELSE [ret |-> FALSE, mode |-> error_mode, count |-> error_count]

\* ------------------------------------------------------------------ main()
\* main() as it would be without the `return` after the report of a --mode
\* that does not parse.
MainStart_NoReturn(mode_arg) ==
  /\ main_pc = "main"
  /\ LET p == parse_command(mode_arg) IN
     IF mode_arg = <<>> \/ p.error_msg # NoMsg
     THEN /\ main_pc' = "setup"
          /\ stdin_pc' = "reading"
          /\ UNCHANGED <<injection, last_set, decided>>
     ELSE /\ set_error_mode(p.mode, p.count, p.percentage)
          /\ main_pc' = "setup"
          /\ stdin_pc' = "reading"
  /\ UNCHANGED <<request_count, session, cmds_read, stop_scheduled, running, reqs>>

\* main() up to the start of the stdin thread: --mode is parsed and installed;
\* a value that does not parse ends main() by `return`.  (The stdin thread is
\* started unless --no-stdin is given; without it no command is ever read.)
MainStart(mode_arg) ==
  /\ main_pc = "main"
  /\ LET p == parse_command(mode_arg) IN
     IF mode_arg = <<>>
     THEN /\ main_pc' = "setup"
          /\ stdin_pc' = "reading"
          /\ UNCHANGED <<injection, last_set, decided>>
     ELSE IF p.error_msg # NoMsg
     THEN /\ main_pc' = "exited"
          /\ UNCHANGED <<injection, last_set, decided, stdin_pc>>
     ELSE /\ set_error_mode(p.mode, p.count, p.percentage)
          /\ main_pc' = "setup"
          /\ stdin_pc' = "reading"
  /\ UNCHANGED <<request_count, session, cmds_read, stop_scheduled, running, reqs>>

\* create_app, runner.setup() (on_startup: start_session) and site.start()
MainSetup ==
  /\ main_pc = "setup"
  /\ main_pc' = "serving"
  /\ session' = "open"
  /\ UNCHANGED <<injection, request_count, stdin_pc, cmds_read, stop_scheduled,
                 running, reqs, last_set, decided>>

\* ------------------------------------------------------------ stdin_reader
\* stdin_reader as it would be without the `continue` after the report of a
\* parse error: the result of the failed parse is installed.
stdin_reader_NoContinue(line) ==
  /\ stdin_pc = "reading"
  /\ main_pc \notin {"exited", "finished", "crashed"}
  /\ cmds_read' = cmds_read + 1
  /\ LET command == Strip(line)
         p == parse_command(command)
     IN
     IF Lower(command) = <<"q">>
     THEN /\ stop_scheduled' = TRUE
          /\ stdin_pc' = "done"
          /\ UNCHANGED <<injection, last_set, decided>>
     ELSE /\ set_error_mode(p.mode, p.count, p.percentage)
          /\ UNCHANGED <<stop_scheduled, stdin_pc>>
  /\ UNCHANGED <<request_count, session, main_pc, running, reqs>>

\* stdin_reader as it would be without the `break` after `q`: the stop is
\* scheduled and the loop goes on reading.
stdin_reader_QuitKeepsReading(line) ==
  /\ stdin_pc = "reading"
  /\ main_pc \notin {"exited", "finished", "crashed"}
  /\ cmds_read' = cmds_read + 1
  /\ LET command == Strip(line)
         p == parsed[command]
     IN
     IF Lower(command) = <<"q">>
     THEN /\ stop_scheduled' = TRUE
          /\ UNCHANGED <<injection, last_set, decided, stdin_pc>>
     ELSE IF p.error_msg # NoMsg
     THEN UNCHANGED <<injection, last_set, decided, stop_scheduled, stdin_pc>>
     ELSE /\ set_error_mode(p.mode, p.count, p.percentage)
          /\ UNCHANGED <<stop_scheduled, stdin_pc>>
  /\ UNCHANGED <<request_count, session, main_pc, running, reqs>>

\* One turn of the loop of stdin_reader on the line `line` (the thread is a
\* daemon: it ends with the process).
stdin_reader(line) ==
  /\ stdin_pc = "reading"
  /\ main_pc \notin {"exited", "finished", "crashed"}
  /\ cmds_read' = cmds_read + 1
  /\ LET command == Strip(line)
         p == parsed[command]
     IN
     IF Lower(command) = <<"q">>
     THEN /\ stop_scheduled' = TRUE
          /\ stdin_pc' = "done"
          /\ UNCHANGED <<injection, last_set, decided>>
     ELSE IF p.error_msg # NoMsg
     THEN UNCHANGED <<injection, last_set, decided, stop_scheduled, stdin_pc>>
     ELSE /\ set_error_mode(p.mode, p.count, p.percentage)
          /\ UNCHANGED <<stop_scheduled, stdin_pc>>
  /\ UNCHANGED <<request_count, session, main_pc, running, reqs>>

\* A turn of the loop, for the first MaxCommands lines.
StdinCommand(line) == cmds_read < MaxCommands /\ stdin_reader(line)

\* What a turn of the loop prints: the farewell, the error message of the
\* parse, or the status panel.
stdin_prints(line) ==
  LET command == Strip(line)
      p == parse_command(command)
  IN IF Lower(command) = <<"q">> THEN <<"Shutting down proxy...">>
     ELSE IF p.error_msg # NoMsg THEN p.error_msg
     ELSE <<"status">>

\* ---------------------------------------------------------- handle_request
NewRequest(request, provider, pc) ==
  [path |-> request.path, headers |-> request.headers, provider |-> provider,
   pc |-> pc, mode_before_check |-> None, decision_mode |-> None,
   should_error |-> FALSE, upstream_called |-> FALSE, response |-> NoResponse]

\* Receive as it would be without the always-forward test.
Receive_NoExemption(request) ==
  /\ main_pc = "serving"
  /\ running = 0
  /\ request_count < MaxRequests
  /\ request_count' = request_count + 1
  /\ reqs' = Append(reqs, NewRequest(request, detect_provider(request), "get_error_mode"))
  /\ running' = request_count + 1
  /\ UNCHANGED <<injection, session, main_pc, stdin_pc, cmds_read, stop_scheduled,
                 last_set, decided>>

\* The handler starts: request_count, detect_provider, should_always_forward.
\* An always-forward request goes on to the forwarding code and waits there
\* (await request.read()); any other goes on to get_error_mode.
Receive(request) ==
  /\ main_pc = "serving"
  /\ running = 0
  /\ request_count < MaxRequests
  /\ request_count' = request_count + 1
  /\ LET r == request_count + 1
         provider == detect_provider(request)
     IN IF should_always_forward(request)
        THEN /\ reqs' = Append(reqs, NewRequest(request, provider, "forward"))
             /\ running' = 0
        ELSE /\ reqs' = Append(reqs, NewRequest(request, provider, "get_error_mode"))
             /\ running' = r
  /\ UNCHANGED <<injection, session, main_pc, stdin_pc, cmds_read, stop_scheduled,
                 last_set, decided>>

\* get_error_mode as it would be if reading the mode took an error off the
\* count.
GetErrorMode_Consumes(r) ==
  /\ running = r
  /\ reqs[r].pc = "get_error_mode"
  /\ reqs' = [reqs EXCEPT ![r].pc = "should_inject_error",
                          ![r].mode_before_check = error_mode]
  /\ error_count' = IF error_count > 0 THEN error_count - 1 ELSE error_count
  /\ UNCHANGED <<error_mode, error_percentage, request_count, session, main_pc,
                 stdin_pc, cmds_read, stop_scheduled, running, last_set, decided>>

\* mode_before_check = self.get_error_mode()
GetErrorMode(r) ==
  /\ running = r
  /\ reqs[r].pc = "get_error_mode"
  /\ reqs' = [reqs EXCEPT ![r].pc = "should_inject_error",
                          ![r].mode_before_check = error_mode]
  /\ UNCHANGED <<injection, request_count, session, main_pc, stdin_pc, cmds_read,
                 stop_scheduled, running, last_set, decided>>

\* ShouldInjectError as it would be if the injected response were not
\* returned and the handler went on to forward the request.
ShouldInjectError_FallThrough(r, rnd) ==
  /\ running = r
  /\ reqs[r].pc = "should_inject_error"
  /\ LET d == should_inject_error(rnd) IN
     /\ error_mode' = d.mode
     /\ error_count' = d.count
     /\ reqs' = [reqs EXCEPT ![r].should_error = d.ret,
                             ![r].decision_mode = error_mode,
                             ![r].pc = "forward"]
  /\ decided' = Append(decided, r)
  /\ running' = 0
  /\ UNCHANGED <<error_percentage, request_count, session, main_pc, stdin_pc,
                 cmds_read, stop_scheduled, last_set>>

\* should_error = self.should_inject_error(), and what follows it without an
\* await: the injected response, or the way to the forwarding code.
ShouldInjectError(r, rnd) ==
  /\ running = r
  /\ reqs[r].pc = "should_inject_error"
  /\ LET d == should_inject_error(rnd)
         cfg == error_config(reqs[r].provider, reqs[r].mode_before_check)
     IN /\ error_mode' = d.mode
        /\ error_count' = d.count
        /\ reqs' = [reqs EXCEPT
             ![r].should_error = d.ret,
             ![r].decision_mode = error_mode,
             ![r].pc = IF d.ret THEN "done" ELSE "forward",
             ![r].response = IF d.ret
                             THEN [kind |-> "injected", status |-> cfg.status, body |-> cfg.body]
                             ELSE NoResponse]
  /\ decided' = Append(decided, r)
  /\ running' = 0
  /\ UNCHANGED <<error_percentage, request_count, session, main_pc, stdin_pc,
                 cmds_read, stop_scheduled, last_set>>

\* handle_request as it would be if the buffered branch ended without
\* returning the Response it read.
UpstreamBuffered_NoReturn(r, status) ==
  /\ main_pc = "serving"
  /\ running = 0
  /\ reqs[r].pc = "forward"
  /\ session = "open"
  /\ reqs' = [reqs EXCEPT ![r].pc = "done", ![r].upstream_called = TRUE]
  /\ UNCHANGED <<injection, request_count, session, main_pc, stdin_pc, cmds_read,
                 stop_scheduled, running, last_set, decided>>

\* The upstream call answers with a body that is not an event stream: the
\* buffered relay.
UpstreamBuffered(r, status) ==
  /\ main_pc = "serving"
  /\ running = 0
  /\ reqs[r].pc = "forward"
  /\ session = "open"
  /\ reqs' = [reqs EXCEPT ![r].pc = "done",
                          ![r].upstream_called = TRUE,
                          ![r].response = [kind |-> "buffered", status |-> status, body |-> <<"upstream">>]]
  /\ UNCHANGED <<injection, request_count, session, main_pc, stdin_pc, cmds_read,
                 stop_scheduled, running, last_set, decided>>

\* handle_request as it would be if the decision were taken again once
\* upstream has answered.
UpstreamStreamed_DecidesAgain(r, status) ==
  /\ main_pc = "serving"
  /\ running = 0
  /\ reqs[r].pc = "forward"
  /\ session = "open"
  /\ LET d == should_inject_error(FloatZero)
         cfg == error_config(reqs[r].provider, error_mode)
     IN /\ error_mode' = d.mode
        /\ error_count' = d.count
        /\ reqs' = [reqs EXCEPT
             ![r].pc = "done",
             ![r].upstream_called = TRUE,
             ![r].response = IF d.ret
                             THEN [kind |-> "injected", status |-> cfg.status, body |-> cfg.body]
                             ELSE [kind |-> "streamed", status |-> status, body |-> <<"upstream">>]]
  /\ UNCHANGED <<error_percentage, request_count, session, main_pc, stdin_pc, cmds_read,
                 stop_scheduled, running, last_set, decided>>

\* The upstream call answers with content type text/event-stream: the
\* streamed relay.
UpstreamStreamed(r, status) ==
  /\ main_pc = "serving"
  /\ running = 0
  /\ reqs[r].pc = "forward"
  /\ session = "open"
  /\ reqs' = [reqs EXCEPT ![r].pc = "done",
                          ![r].upstream_called = TRUE,
                          ![r].response = [kind |-> "streamed", status |-> status, body |-> <<"upstream">>]]
  /\ UNCHANGED <<injection, request_count, session, main_pc, stdin_pc, cmds_read,
                 stop_scheduled, running, last_set, decided>>

\* handle_request as it would be without the outer try: the exception leaves
\* the handler and no response is built.
UpstreamFailed_Uncaught(r) ==
  /\ main_pc = "serving"
  /\ running = 0
  /\ reqs[r].pc = "forward"
  /\ reqs' = [reqs EXCEPT ![r].pc = "done",
                          ![r].upstream_called = (session = "open")]
  /\ UNCHANGED <<injection, request_count, session, main_pc, stdin_pc, cmds_read,
                 stop_scheduled, running, last_set, decided>>

\* The upstream call raises (network error, timeout): the except branch.
UpstreamFailed(r) ==
  /\ main_pc = "serving"
  /\ running = 0
  /\ reqs[r].pc = "forward"
  /\ reqs' = [reqs EXCEPT ![r].pc = "done",
                          ![r].upstream_called = (session = "open"),
                          ![r].response = [kind |-> "proxy_error", status |-> 500, body |-> <<"Proxy error">>]]
  /\ UNCHANGED <<injection, request_count, session, main_pc, stdin_pc, cmds_read,
                 stop_scheduled, running, last_set, decided>>

UpstreamStatuses == {200}

\* ------------------------------------------------------------ specification
Requests == 1..request_count

Next ==
  \/ \E c \in Commands : MainStart(c) /\ UNCHANGED aux
  \/ MainSetup /\ UNCHANGED aux
  \/ \E c \in Commands : StdinCommand(c) /\ UNCHANGED aux
  \/ \E q \in RequestInputs : Receive(q) /\ UNCHANGED aux
  \/ \E r \in Requests : GetErrorMode(r) /\ UNCHANGED aux
  \/ \E r \in Requests, rnd \in RandomValues : ShouldInjectError(r, rnd) /\ UNCHANGED aux
  \/ \E r \in Requests, st \in UpstreamStatuses : UpstreamBuffered(r, st) /\ UNCHANGED aux
  \/ \E r \in Requests, st \in UpstreamStatuses : UpstreamStreamed(r, st) /\ UNCHANGED aux
  \/ \E r \in Requests : UpstreamFailed(r) /\ UNCHANGED aux

Spec == Init /\ [][Next]_vars

\* ------------------------------------------------- the control loop, closely
\* The most lines typed where the control loop is looked at closely.
MaxLines == 2

CtlRequests == { q \in RequestInputs : q.path = <<"/", "v", "1", "/", "c", "h", "a", "t">> }

\* A turn of the stdin_reader with what it read and what it printed.
CtlCommand(line) ==
  /\ cmds_read < MaxLines
  /\ stdin_reader(line)
  /\ lines_read' = Append(lines_read, line)
  /\ printed' = stdin_prints(line)
  /\ UNCHANGED <<args_mode, exit_code, streams, input, output, locking>>

CtlNext ==
  \/ \E c \in {<<>>, <<"c">>} : MainStart(c) /\ UNCHANGED aux
  \/ MainSetup /\ UNCHANGED aux
  \/ \E c \in CtlLines : CtlCommand(c)
  \/ \E q \in CtlRequests : Receive(q) /\ UNCHANGED aux
  \/ \E r \in Requests : GetErrorMode(r) /\ UNCHANGED aux
  \/ \E r \in Requests, rnd \in RandomValues : ShouldInjectError(r, rnd) /\ UNCHANGED aux

SpecCtl == Init /\ [][CtlNext]_vars

\* ------------------------------------------ the life of the process, closely
\* main() up to the start of the stdin thread, with the value of --mode it
\* read; the `return` on a value that does not parse ends the process with
\* the status of a normal return.
LifeStart(mode_arg) ==
  /\ MainStart(mode_arg)
  /\ args_mode' = <<mode_arg>>
  /\ exit_code' = IF main_pc' = "exited" THEN 0 ELSE exit_code
  /\ UNCHANGED <<lines_read, printed, streams, input, output, locking>>

\* The stop was scheduled before create_app had run: the first
\* run_until_complete consumes it and main() goes on to serve.
SetupAbsorbsStop ==
  /\ main_pc = "setup"
  /\ stop_scheduled
  /\ main_pc' = "serving"
  /\ session' = "open"
  /\ stop_scheduled' = FALSE
  /\ UNCHANGED <<injection, request_count, stdin_pc, cmds_read, running, reqs,
                 last_set, decided, aux>>

\* The stop takes effect while runner.setup() or site.start() is awaited:
\* run_until_complete raises RuntimeError outside the try of main().
SetupCrashes ==
  /\ main_pc = "setup"
  /\ stop_scheduled
  /\ main_pc' = "crashed"
  /\ \E s \in {"none", "open"} : session' = s
  /\ exit_code' = 1
  /\ UNCHANGED <<injection, request_count, stdin_pc, cmds_read, stop_scheduled,
                 running, reqs, last_set, decided, args_mode, lines_read, printed,
                 streams, input, output, locking>>

\* input() raises EOFError: the stdin_reader schedules the stop and ends.
StdinEOF ==
  /\ stdin_pc = "reading"
  /\ main_pc \notin {"exited", "finished", "crashed"}
  /\ stop_scheduled' = TRUE
  /\ stdin_pc' = "done"
  /\ printed' = <<"Shutting down proxy...">>
  /\ UNCHANGED <<injection, request_count, session, main_pc, cmds_read, running,
                 reqs, last_set, decided, args_mode, lines_read, exit_code,
                 streams, input, output, locking>>

\* shutdown_server runs on the loop: loop.stop() ends run_forever at the end
\* of the loop's turn.
MainLoopStops ==
  /\ main_pc = "serving"
  /\ stop_scheduled
  /\ running = 0
  /\ main_pc' = "cleanup"
  /\ stop_scheduled' = FALSE
  /\ UNCHANGED <<injection, request_count, session, stdin_pc, cmds_read, running,
                 reqs, last_set, decided, aux>>

\* Ctrl+C while run_forever runs: the except branch of main().
KeyboardInterrupt ==
  /\ main_pc = "serving"
  /\ running = 0
  /\ main_pc' = "cleanup"
  /\ UNCHANGED <<injection, request_count, session, stdin_pc, cmds_read,
                 stop_scheduled, running, reqs, last_set, decided, aux>>

\* The finally branch of main(): runner.cleanup() (on_cleanup: close_session),
\* loop.close(), and the end of main().
MainCleanup ==
  /\ main_pc = "cleanup"
  /\ main_pc' = "finished"
  /\ session' = "closed"
  /\ exit_code' = 0
  /\ UNCHANGED <<injection, request_count, stdin_pc, cmds_read, stop_scheduled,
                 running, reqs, last_set, decided, args_mode, lines_read, printed,
                 streams, input, output, locking>>

\* The listener accepts connections.
ListenerOpen == main_pc = "serving"

LifeNext ==
  \/ \E c \in LifeArgs : LifeStart(c)
  \/ MainSetup /\ UNCHANGED aux
  \/ SetupAbsorbsStop
  \/ SetupCrashes
  \/ \E c \in LifeLines : CtlCommand(c)
  \/ StdinEOF
  \/ \E q \in CtlRequests : Receive(q) /\ UNCHANGED aux
  \/ \E r \in Requests : GetErrorMode(r) /\ UNCHANGED aux
  \/ \E r \in Requests, rnd \in RandomValues : ShouldInjectError(r, rnd) /\ UNCHANGED aux
  \/ \E r \in Requests, st \in UpstreamStatuses : UpstreamBuffered(r, st) /\ UNCHANGED aux
  \/ MainLoopStops
  \/ KeyboardInterrupt
  \/ MainCleanup

SpecLife == Init /\ [][LifeNext]_vars

\* ------------------------------------- the life of the process, with fairness
\* A handler that can go on does go on: the event loop runs what is ready, and
\* every await of a handler returns or raises in the end (the upstream call
\* answers, fails or runs into the ClientTimeout of the session).
HandlerStep ==
  /\ \E r \in Requests :
       \/ GetErrorMode(r)
       \/ \E rnd \in RandomValues : ShouldInjectError(r, rnd)
       \/ \E st \in UpstreamStatuses : UpstreamBuffered(r, st)
       \/ \E st \in UpstreamStatuses : UpstreamStreamed(r, st)
       \/ UpstreamFailed(r)
  /\ UNCHANGED aux

AnswerNext ==
  \/ LifeNext
  \/ \E r \in Requests, st \in UpstreamStatuses : UpstreamStreamed(r, st) /\ UNCHANGED aux
  \/ \E r \in Requests : UpstreamFailed(r) /\ UNCHANGED aux

SpecAnswer == Init /\ [][AnswerNext]_vars /\ WF_vars(HandlerStep)

\* ------------------------------------------------ the streamed relay, closely
\* The most chunks an upstream body has.
MaxChunks == 2

\* A relay that has not begun.  status and body are what upstream answers (the
\* chunks are numbered as iter_any() yields them), next counts the chunks
\* read, chunk holds the chunk read and not yet written, sent is what went to
\* the caller, broken tells which side failed.
NoStream ==
  [status |-> 0, body |-> <<>>, next |-> 0, chunk |-> <<>>, sent |-> <<>>, broken |-> "no"]

RelayRequests == { q \in RequestInputs : q.path = <<"/", "v", "1", "/", "c", "h", "a", "t">> }

\* The proxy is serving after --mode "c 50%".
InitRelay ==
  /\ error_mode = CONTEXT_LENGTH
  /\ error_count = 0
  /\ error_percentage = <<5, 10>>
  /\ last_set = [mode |-> CONTEXT_LENGTH, count |-> 0, percentage |-> <<5, 10>>]
  /\ request_count = 0
  /\ session = "open"
  /\ main_pc = "serving"
  /\ stdin_pc = "reading"
  /\ cmds_read = 0
  /\ stop_scheduled = FALSE
  /\ running = 0
  /\ reqs = <<>>
  /\ decided = <<>>
  /\ InitRecords
  /\ input = <<>>
  /\ output = <<>>

RelayReceive(request) ==
  /\ Receive(request)
  /\ streams' = Append(streams, NoStream)
  /\ UNCHANGED <<args_mode, lines_read, printed, exit_code, input, output, locking>>

\* What a step of the relay of request r leaves alone.
RelayFrame ==
  UNCHANGED <<injection, request_count, session, main_pc, stdin_pc, cmds_read,
              stop_scheduled, running, last_set, decided, args_mode, lines_read,
              printed, exit_code, input, output, locking>>

StreamedResponse(r) ==
  [kind |-> "streamed", status |-> streams[r].status, body |-> <<"upstream">>]

\* session.request answers with content type text/event-stream.
UpstreamStreams(r, status, n) ==
  /\ main_pc = "serving"
  /\ running = 0
  /\ reqs[r].pc = "forward"
  /\ session = "open"
  /\ reqs' = [reqs EXCEPT ![r].pc = "prepare", ![r].upstream_called = TRUE]
  /\ streams' = [streams EXCEPT ![r].status = status, ![r].body = [i \in 1..n |-> i]]
  /\ RelayFrame

\* await response.prepare(request): status and headers go to the caller.
StreamPrepare(r) ==
  /\ main_pc = "serving"
  /\ running = 0
  /\ reqs[r].pc = "prepare"
  /\ reqs' = [reqs EXCEPT ![r].pc = "read"]
  /\ streams' = [streams EXCEPT ![r].sent = << <<"head", streams[r].status>> >>]
  /\ RelayFrame

\* response.prepare raises (the caller is gone): the outer except branch.
StreamPrepareFails(r) ==
  /\ main_pc = "serving"
  /\ running = 0
  /\ reqs[r].pc = "prepare"
  /\ reqs' = [reqs EXCEPT ![r].pc = "done",
                          ![r].response = [kind |-> "proxy_error", status |-> 500, body |-> <<"Proxy error">>]]
  /\ streams' = [streams EXCEPT ![r].broken = "downstream"]
  /\ RelayFrame

\* iter_any() yields the next chunk.
StreamRead(r) ==
  /\ main_pc = "serving"
  /\ running = 0
  /\ reqs[r].pc = "read"
  /\ streams[r].next < Len(streams[r].body)
  /\ reqs' = [reqs EXCEPT ![r].pc = "write"]
  /\ streams' = [streams EXCEPT ![r].next = streams[r].next + 1,
                                ![r].chunk = <<streams[r].body[streams[r].next + 1]>>]
  /\ RelayFrame

\* iter_any() ends: the body is over.
StreamReadEnd(r) ==
  /\ main_pc = "serving"
  /\ running = 0
  /\ reqs[r].pc = "read"
  /\ streams[r].next = Len(streams[r].body)
  /\ reqs' = [reqs EXCEPT ![r].pc = "eof"]
  /\ UNCHANGED streams
  /\ RelayFrame

\* iter_any() raises (upstream breaks off): the inner except branch, and the
\* handler returns the response.
StreamReadFails(r) ==
  /\ main_pc = "serving"
  /\ running = 0
  /\ reqs[r].pc = "read"
  /\ reqs' = [reqs EXCEPT ![r].pc = "done", ![r].response = StreamedResponse(r)]
  /\ streams' = [streams EXCEPT ![r].broken = "upstream"]
  /\ RelayFrame

\* The copy loop as it would be if a chunk read were not written.
StreamWrite_Dropped(r) ==
  /\ main_pc = "serving"
  /\ running = 0
  /\ reqs[r].pc = "write"
  /\ reqs' = [reqs EXCEPT ![r].pc = "read"]
  /\ streams' = [streams EXCEPT ![r].chunk = <<>>]
  /\ RelayFrame

\* await response.write(chunk)
StreamWrite(r) ==
  /\ main_pc = "serving"
  /\ running = 0
  /\ reqs[r].pc = "write"
  /\ reqs' = [reqs EXCEPT ![r].pc = "read"]
  /\ streams' = [streams EXCEPT ![r].chunk = <<>>,
                                ![r].sent = Append(streams[r].sent, <<"chunk", streams[r].chunk[1]>>)]
  /\ RelayFrame

\* The relay as it would be without the inner try: the failed write reaches
\* the outer except branch, which answers with the JSON error.
StreamWriteFails_NoInnerTry(r) ==
  /\ main_pc = "serving"
  /\ running = 0
  /\ reqs[r].pc \in {"write", "eof"}
  /\ reqs' = [reqs EXCEPT ![r].pc = "done",
                          ![r].response = [kind |-> "proxy_error", status |-> 500, body |-> <<"Proxy error">>]]
  /\ streams' = [streams EXCEPT ![r].broken = "downstream"]
  /\ RelayFrame

\* response.write or response.write_eof raises (the caller has disconnected):
\* the inner except branch, and the handler returns the response.
StreamWriteFails(r) ==
  /\ main_pc = "serving"
  /\ running = 0
  /\ reqs[r].pc \in {"write", "eof"}
  /\ reqs' = [reqs EXCEPT ![r].pc = "done", ![r].response = StreamedResponse(r)]
  /\ streams' = [streams EXCEPT ![r].broken = "downstream"]
  /\ RelayFrame

\* await response.write_eof(), and the handler returns the response.
StreamEOF(r) ==
  /\ main_pc = "serving"
  /\ running = 0
  /\ reqs[r].pc = "eof"
  /\ reqs' = [reqs EXCEPT ![r].pc = "done", ![r].response = StreamedResponse(r)]
  /\ streams' = [streams EXCEPT ![r].sent = Append(streams[r].sent, <<"eof", 0>>)]
  /\ RelayFrame

RelayNext ==
  \/ \E q \in RelayRequests : RelayReceive(q)
  \/ \E r \in Requests : GetErrorMode(r) /\ UNCHANGED aux
  \/ \E r \in Requests, rnd \in RandomValues : ShouldInjectError(r, rnd) /\ UNCHANGED aux
  \/ \E r \in Requests, st \in UpstreamStatuses : UpstreamBuffered(r, st) /\ UNCHANGED aux
  \/ \E r \in Requests : UpstreamFailed(r) /\ UNCHANGED aux
  \/ \E r \in Requests, st \in UpstreamStatuses, n \in 0..MaxChunks : UpstreamStreams(r, st, n)
  \/ \E r \in Requests : StreamPrepare(r)
  \/ \E r \in Requests : StreamPrepareFails(r)
  \/ \E r \in Requests : StreamRead(r)
  \/ \E r \in Requests : StreamReadEnd(r)
  \/ \E r \in Requests : StreamReadFails(r)
  \/ \E r \in Requests : StreamWrite(r)
  \/ \E r \in Requests : StreamWriteFails(r)
  \/ \E r \in Requests : StreamEOF(r)

SpecRelay == InitRelay /\ [][RelayNext]_vars

\* ---------------------------------------------- detect_provider, on its own
\* Paths with a databricks marker at the start or inside, in lower or upper
\* case, with a marker cut short, and with the words the bearer branch looks
\* for, alone and two at a time.
DetectPaths ==
  { <<"/", "s", "e", "r", "v", "i", "n", "g", "-", "e", "n", "d", "p", "o", "i", "n", "t", "s", "/", "m">>,
    <<"/", "a", "p", "i", "/", "2", ".", "0", "/", "x">>,
    <<"/", "o", "i", "d", "c", "/", "t">>,
    <<"/", "O", "I", "D", "C", "/", "t">>,
    <<"/", "v", "1", "/", "o", "i", "d", "c", "/", "m", "e", "s", "s", "a", "g", "e", "s">>,
    <<"/", "x", "/", "a", "p", "i", "/", "2", ".", "0", "/", "g", "o", "o", "g", "l", "e">>,
    <<"/", "v", "1", "/", "m", "e", "s", "s", "a", "g", "e", "s">>,
    <<"/", "v", "1", "/", "c", "h", "a", "t">>,
    <<"/", "o", "i", "d", "c">>,
    <<"/", "a", "p", "i", "/", "2", ".", "0">>,
    <<"/", "t", "e", "t", "r", "a", "t", "e", "/", "x">>,
    <<"/", "d", "a", "t", "a", "b", "r", "i", "c", "k", "s", "/", "x">>,
    <<"/", "a", "n", "t", "h", "r", "o", "p", "i", "c", "/", "x">>,
    <<"/", "g", "e", "n", "e", "r", "a", "t", "i", "v", "e", "l", "a", "n", "g", "u", "a", "g", "e", "/", "x">>,
    <<"/", "o", "p", "e", "n", "r", "o", "u", "t", "e", "r", "/", "x">>,
    <<"/", "T", "E", "T", "R", "A", "T", "E", "/", "x">>,
    <<"/", "o", "p", "e", "n", "r", "o", "u", "t", "e", "r", "/", "m", "e", "s", "s", "a", "g", "e", "s">>,
    <<"/", "t", "e", "t", "r", "a", "t", "e", "/", "o", "p", "e", "n", "r", "o", "u", "t", "e", "r">>,
    <<"/", "d", "a", "t", "a", "b", "r", "i", "c", "k", "s", "/", "t", "e", "t", "r", "a", "t", "e">>,
    <<"/", "o", "p", "e", "n", "r", "o", "u", "t", "e", "r", "/", "g", "o", "o", "g", "l", "e">> }

Basic == <<"B", "a", "s", "i", "c", " ", "k">>

\* Every combination of the three headers, the authorization a bearer token
\* or not.
DetectHeaders ==
  { [h \in names |-> IF h = "authorization" THEN auth ELSE <<"k">>] :
      names \in SUBSET {"x-api-key", "x-goog-api-key", "authorization"},
      auth \in {Bearer, Basic} }

DetectInputs == {[path |-> pa, headers |-> hs] : pa \in DetectPaths, hs \in DetectHeaders}

InitDetect == InitProxy /\ InitRecords /\ input \in DetectInputs /\ output = <<>>

\* detect_provider(input) is called and returns.
DetectApply ==
  /\ output = <<>>
  /\ output' = <<detect_provider(input)>>
  /\ UNCHANGED <<error_mode, error_count, error_percentage, request_count, session,
                 main_pc, stdin_pc, cmds_read, stop_scheduled, running, reqs,
                 last_set, decided, args_mode, lines_read, printed, exit_code,
                 streams, input, locking>>

SpecDetect == InitDetect /\ [][DetectApply]_vars

\* handle_request goes on to should_always_forward(request), line 464.
ExemptApply ==
  /\ Len(output) = 1
  /\ output' = Append(output, should_always_forward(input))
  /\ UNCHANGED <<error_mode, error_count, error_percentage, request_count, session,
                 main_pc, stdin_pc, cmds_read, stop_scheduled, running, reqs,
                 last_set, decided, args_mode, lines_read, printed, exit_code,
                 streams, input, locking>>

ExemptNext ==
  \/ DetectApply
  \/ ExemptApply

\* detect_provider and should_always_forward on the same request.
SpecExempt == InitDetect /\ [][ExemptNext]_vars

\* ----------------------------------------------- get_target_url, on its own
\* PROVIDER_HOSTS, in the order of the dict.
PROVIDER_HOSTS ==
  << [name |-> "openai", host |-> "https://api.openai.com"],
     [name |-> "anthropic", host |-> "https://api.anthropic.com"],
     [name |-> "google", host |-> "https://generativelanguage.googleapis.com"],
     [name |-> "openrouter", host |-> "https://openrouter.ai"],
     [name |-> "tetrate", host |-> "https://api.tetrate.io"],
     [name |-> "databricks", host |-> "https://api.databricks.com"] >>

\* PROVIDER_HOSTS.get(provider, PROVIDER_HOSTS['openai'])
provider_host(provider) ==
  IF \E i \in 1..Len(PROVIDER_HOSTS) : PROVIDER_HOSTS[i].name = provider
  THEN PROVIDER_HOSTS[CHOOSE i \in 1..Len(PROVIDER_HOSTS) : PROVIDER_HOSTS[i].name = provider].host
  ELSE PROVIDER_HOSTS[1].host

\* f"{provider.upper()}_REAL_HOST"
real_host_env(provider) ==
  CASE provider = "openai" -> "OPENAI_REAL_HOST"
    [] provider = "anthropic" -> "ANTHROPIC_REAL_HOST"
    [] provider = "google" -> "GOOGLE_REAL_HOST"
    [] provider = "openrouter" -> "OPENROUTER_REAL_HOST"
    [] provider = "tetrate" -> "TETRATE_REAL_HOST"
    [] provider = "databricks" -> "DATABRICKS_REAL_HOST"

\* The host get_target_url settles on with the scan of every provider's
\* variable made for any path.
base_host_AlwaysScans(request, provider, environ) ==
  LET own == IF real_host_env(provider) \in DOMAIN environ
             THEN environ[real_host_env(provider)] ELSE None
      set == {i \in 1..Len(PROVIDER_HOSTS) :
                real_host_env(PROVIDER_HOSTS[i].name) \in DOMAIN environ}
      scanned ==
        IF own = None /\ set # {}
        THEN environ[real_host_env(PROVIDER_HOSTS[CHOOSE i \in set : \A k \in set : i <= k].name)]
        ELSE own
  IN IF scanned = None THEN provider_host(provider) ELSE scanned

\* The host get_target_url settles on: os.environ.get(real_host_env); on an
\* always-forward path the first variable of the registry that is set; the
\* default host of the provider.
base_host(request, provider, environ) ==
  LET own == IF real_host_env(provider) \in DOMAIN environ
             THEN environ[real_host_env(provider)] ELSE None
      set == {i \in 1..Len(PROVIDER_HOSTS) :
                real_host_env(PROVIDER_HOSTS[i].name) \in DOMAIN environ}
      scanned ==
        IF own = None /\ should_always_forward(request) /\ set # {}
        THEN environ[real_host_env(PROVIDER_HOSTS[CHOOSE i \in set : \A k \in set : i <= k].name)]
        ELSE own
  IN IF scanned = None THEN provider_host(provider) ELSE scanned

\* get_target_url(request, provider): the host, kept as one element, then the
\* path, then "?" and the query string when there is one.
get_target_url(request, provider, environ) ==
  LET url == <<base_host(request, provider, environ)>> \o request.path
  IN IF request.query_string # <<>> THEN url \o <<"?">> \o request.query_string ELSE url

\* Paths that are always forwarded by each of the four rules, a path that only
\* is one in lower case, and paths that are not.
TargetPaths ==
  { <<"/", "o", "i", "d", "c", "/", "t">>,
    <<"/", ".", "w", "e", "l", "l", "-", "k", "n", "o", "w", "n", "/", "x">>,
    <<"/", "o", "a", "u", "t", "h", "/", "t", "e", "t", "r", "a", "t", "e">>,
    <<"/", "a", "p", "i", "/", "2", ".", "0", "/", "x">>,
    <<"/", "O", "I", "D", "C", "/", "t">>,
    <<"/", "v", "1", "/", "c", "h", "a", "t">>,
    <<"/", "o", "p", "e", "n", "r", "o", "u", "t", "e", "r", "/", "x">> }

TargetHeaders ==
  { [h \in names |-> IF h = "authorization" THEN Bearer ELSE <<"k">>] :
      names \in {{}, {"x-api-key"}, {"x-goog-api-key"}, {"authorization"}} }

\* os.environ, as far as the six *_REAL_HOST variables go: each one unset, set
\* to a host of its own, or set to the empty string.
Environs ==
  UNION { [vs -> {"host", ""}] : vs \in SUBSET {real_host_env(p) : p \in Providers} }

\* The host each variable names when it names one.
RealHosts ==
  [OPENAI_REAL_HOST |-> "http://real-openai", ANTHROPIC_REAL_HOST |-> "http://real-anthropic",
   GOOGLE_REAL_HOST |-> "http://real-google", OPENROUTER_REAL_HOST |-> "http://real-openrouter",
   TETRATE_REAL_HOST |-> "http://real-tetrate", DATABRICKS_REAL_HOST |-> "http://real-databricks"]

environ_of(e) == [v \in DOMAIN e |-> IF e[v] = "host" THEN RealHosts[v] ELSE ""]

TargetInputs ==
  { [request |-> [path |-> pa, headers |-> hs, query_string |-> q], environ |-> environ_of(e)] :
      pa \in TargetPaths, hs \in TargetHeaders, q \in {<<>>, <<"a", "=", "1">>}, e \in Environs }

InitTarget == InitProxy /\ InitRecords /\ input \in TargetInputs /\ output = <<>>

\* handle_request: provider = self.detect_provider(request), then
\* target_url = self.get_target_url(request, provider).
TargetApply ==
  /\ output = <<>>
  /\ output' = <<get_target_url(input.request, detect_provider(input.request), input.environ)>>
  /\ UNCHANGED <<error_mode, error_count, error_percentage, request_count, session,
                 main_pc, stdin_pc, cmds_read, stop_scheduled, running, reqs,
                 last_set, decided, args_mode, lines_read, printed, exit_code,
                 streams, input, locking>>

SpecTarget == InitTarget /\ [][TargetApply]_vars

\* ------------------------------------------- the template lookup, on its own
\* The six providers of the table, and names the table does not have: other
\* services, the empty name, and known names in another letter case.
TemplateProviders ==
  Providers \cup {"azure", "bedrock", "ollama", "", "OpenAI", "ANTHROPIC", "Google"}

\* Every provider name with every member of ErrorMode; the tables have no
\* entry for NO_ERROR.
TemplateInputs == [provider : TemplateProviders, mode : ErrorMode]

InitTemplate == InitProxy /\ InitRecords /\ input \in TemplateInputs /\ output = <<>>

\* The lookup of handle_request is made for the provider and the mode.
TemplateApply ==
  /\ output = <<>>
  /\ output' = <<error_config(input.provider, input.mode)>>
  /\ UNCHANGED <<error_mode, error_count, error_percentage, request_count, session,
                 main_pc, stdin_pc, cmds_read, stop_scheduled, running, reqs,
                 last_set, decided, args_mode, lines_read, printed, exit_code,
                 streams, input, locking>>

SpecTemplate == InitTemplate /\ [][TemplateApply]_vars

\* ------------------------------------------- the upstream request, closely
\* The most header lines of a request where its forwarding is looked at
\* closely.
MaxHeaders == 2

\* {k: v for k, v in items if keep(k)}: the dict a comprehension builds from
\* header lines, as the list of its items.  A key that comes again keeps its
\* place and takes the later value; keys are compared as they are written.
RECURSIVE DictOf(_)
DictOf(items) ==
  IF items = <<>> THEN <<>>
  ELSE LET before == DictOf(SubSeq(items, 1, Len(items) - 1))
           item == items[Len(items)]
       IN IF \E i \in 1..Len(before) : before[i][1] = item[1]
          THEN [i \in 1..Len(before) |->
                  IF before[i][1] = item[1] THEN item ELSE before[i]]
          ELSE Append(before, item)

\* The names the request comprehension leaves out (lines 494-496).
RequestExcluded ==
  { <<"h", "o", "s", "t">>,
    <<"c", "o", "n", "n", "e", "c", "t", "i", "o", "n">>,
    <<"k", "e", "e", "p", "-", "a", "l", "i", "v", "e">>,
    <<"p", "r", "o", "x", "y", "-", "a", "u", "t", "h", "e", "n", "t", "i", "c", "a", "t", "e">>,
    <<"p", "r", "o", "x", "y", "-", "a", "u", "t", "h", "o", "r", "i", "z", "a", "t", "i", "o", "n">>,
    <<"t", "e">>,
    <<"t", "r", "a", "i", "l", "e", "r", "s">>,
    <<"t", "r", "a", "n", "s", "f", "e", "r", "-", "e", "n", "c", "o", "d", "i", "n", "g">>,
    <<"u", "p", "g", "r", "a", "d", "e">> }

\* headers = {k: v for k, v in request.headers.items()
\*            if k.lower() not in (...)}
request_headers(items) ==
  DictOf(SelectSeq(items, LAMBDA kv : Lower(kv[1]) \notin RequestExcluded))

\* request.headers as detect_provider looks into it: by name, whatever the
\* letter case, the first line of the name.
HeaderKeys ==
  { [key |-> "x-api-key", name |-> <<"x", "-", "a", "p", "i", "-", "k", "e", "y">>],
    [key |-> "x-goog-api-key", name |-> <<"x", "-", "g", "o", "o", "g", "-", "a", "p", "i", "-", "k", "e", "y">>],
    [key |-> "authorization", name |-> <<"a", "u", "t", "h", "o", "r", "i", "z", "a", "t", "i", "o", "n">>] }

HeaderView(items) ==
  LET has == {h \in HeaderKeys : \E i \in 1..Len(items) : Lower(items[i][1]) = h.name}
  IN [k \in {h.key : h \in has} |->
        LET h == CHOOSE x \in has : x.key = k
            first == CHOOSE i \in 1..Len(items) :
                       /\ Lower(items[i][1]) = h.name
                       /\ \A j \in 1..(i - 1) : Lower(items[j][1]) # h.name
        IN items[first][2]]

\* The header lines a client sends: every name the comprehension leaves out,
\* in one letter case or another, and end-to-end lines, one name twice and
\* once more in another letter case.
RequestHeaderLines ==
  { <<<<"H", "o", "s", "t">>, <<"p", "r", "o", "x", "y">>>>,
    <<<<"C", "o", "n", "n", "e", "c", "t", "i", "o", "n">>, <<"c", "l", "o", "s", "e">>>>,
    <<<<"K", "e", "e", "p", "-", "A", "l", "i", "v", "e">>, <<"5">>>>,
    <<<<"P", "r", "o", "x", "y", "-", "A", "u", "t", "h", "e", "n", "t", "i", "c", "a", "t", "e">>, <<"x">>>>,
    <<<<"p", "r", "o", "x", "y", "-", "a", "u", "t", "h", "o", "r", "i", "z", "a", "t", "i", "o", "n">>, <<"x">>>>,
    <<<<"T", "E">>, <<"t", "r", "a", "i", "l", "e", "r", "s">>>>,
    <<<<"T", "r", "a", "i", "l", "e", "r", "s">>, <<"x">>>>,
    <<<<"T", "r", "a", "n", "s", "f", "e", "r", "-", "E", "n", "c", "o", "d", "i", "n", "g">>, <<"c", "h", "u", "n", "k", "e", "d">>>>,
    <<<<"U", "P", "G", "R", "A", "D", "E">>, <<"h", "2", "c">>>>,
    <<<<"x", "-", "a", "p", "i", "-", "k", "e", "y">>, <<"k">>>>,
    <<<<"X", "-", "T", "a", "g">>, <<"a">>>>,
    <<<<"X", "-", "T", "a", "g">>, <<"b">>>>,
    <<<<"x", "-", "t", "a", "g">>, <<"c">>>>,
    <<<<"A", "c", "c", "e", "p", "t">>, <<"j", "s", "o", "n">>>> }

RECURSIVE SeqsUpTo(_, _)
SeqsUpTo(S, n) ==
  IF n = 0 THEN {<<>>}
  ELSE LET shorter == SeqsUpTo(S, n - 1)
       IN shorter \cup {Append(q, x) : q \in {t \in shorter : Len(t) = n - 1}, x \in S}

ForwardMethods == {"GET", "POST"}

ForwardRequests(n) ==
  [method : ForwardMethods,
   path : {<<"/", "v", "1", "/", "c", "h", "a", "t">>, <<"/", "o", "i", "d", "c", "/", "t">>},
   query_string : {<<>>, <<"a", "=", "1">>},
   headers : SeqsUpTo(RequestHeaderLines, n),
   body : {<<>>, <<"b">>}]

\* The status of the upstream answer: a success, a redirect, an error.
ForwardStatuses == {200, 302, 500}

InitForward ==
  /\ InitProxy /\ InitRecords
  /\ input \in ForwardRequests(MaxHeaders)
  /\ output = <<>>

ForwardFrame ==
  UNCHANGED <<error_mode, error_count, error_percentage, request_count, session,
              main_pc, stdin_pc, cmds_read, stop_scheduled, running, reqs,
              last_set, decided, args_mode, lines_read, printed, exit_code,
              streams, input, locking>>

\* The call self.session.request(...) the handler makes for `request` with
\* the headers `headers`.
session_request(request, headers) ==
  [method |-> request.method,
   url |-> get_target_url(request,
                          detect_provider([path |-> request.path,
                                           headers |-> HeaderView(request.headers)]),
                          <<>>),
   headers |-> headers,
   data |-> request.body,
   allow_redirects |-> FALSE]

\* handle_request, lines 486-505: the target URL, the body, the headers and
\* the call of the session.
ForwardCall ==
  /\ output = <<>>
  /\ output' = <<session_request(input, request_headers(input.headers))>>
  /\ ForwardFrame

\* The upstream answers with a status; the handler relays resp.status
\* (lines 522 and 544).
ForwardAnswered(status) ==
  /\ Len(output) = 1
  /\ output' = Append(output, [resp_status |-> status, status |-> status])
  /\ ForwardFrame

ForwardNext ==
  \/ ForwardCall
  \/ \E st \in ForwardStatuses : ForwardAnswered(st)

SpecForward == InitForward /\ [][ForwardNext]_vars

\* ------------------------------------------- the upstream answer, closely
\* The most header lines of an upstream answer where its relay is looked at
\* closely.
MaxAnswerHeaders == 3

\* The names the response comprehension leaves out (lines 510-512).
ResponseExcluded ==
  { <<"c", "o", "n", "n", "e", "c", "t", "i", "o", "n">>,
    <<"k", "e", "e", "p", "-", "a", "l", "i", "v", "e">>,
    <<"t", "r", "a", "n", "s", "f", "e", "r", "-", "e", "n", "c", "o", "d", "i", "n", "g">>,
    <<"c", "o", "n", "t", "e", "n", "t", "-", "e", "n", "c", "o", "d", "i", "n", "g">>,
    <<"c", "o", "n", "t", "e", "n", "t", "-", "l", "e", "n", "g", "t", "h">> }

\* response_headers = {k: v for k, v in resp.headers.items()
\*                     if k.lower() not in (...)}
response_headers(items) ==
  DictOf(SelectSeq(items, LAMBDA kv : Lower(kv[1]) \notin ResponseExcluded))

\* resp.headers.get('content-type', ''): the first line of that name,
\* whatever its letter case.
content_type_of(items) ==
  LET at == {i \in 1..Len(items) : Lower(items[i][1]) = <<"c", "o", "n", "t", "e", "n", "t", "-", "t", "y", "p", "e">>}
  IN IF at = {} THEN <<>> ELSE items[CHOOSE i \in at : \A k \in at : i <= k][2]

\* is_streaming = 'text/event-stream' in content_type
is_streaming(items) ==
  Contains(<<"t", "e", "x", "t", "/", "e", "v", "e", "n", "t", "-", "s", "t", "r", "e", "a", "m">>, Lower(content_type_of(items)))

\* The header lines upstream sends: the content types, every name the
\* comprehension leaves out, and end-to-end lines, one name twice and once
\* more in another letter case.
AnswerHeaderLines ==
  { <<<<"C", "o", "n", "t", "e", "n", "t", "-", "T", "y", "p", "e">>, <<"t", "e", "x", "t", "/", "e", "v", "e", "n", "t", "-", "s", "t", "r", "e", "a", "m">>>>,
    <<<<"c", "o", "n", "t", "e", "n", "t", "-", "t", "y", "p", "e">>, <<"T", "e", "x", "t", "/", "E", "v", "e", "n", "t", "-", "S", "t", "r", "e", "a", "m", ";", " ", "c", "h", "a", "r", "s", "e", "t", "=", "u", "t", "f", "-", "8">>>>,
    <<<<"C", "o", "n", "t", "e", "n", "t", "-", "T", "y", "p", "e">>, <<"a", "p", "p", "l", "i", "c", "a", "t", "i", "o", "n", "/", "j", "s", "o", "n">>>>,
    <<<<"C", "o", "n", "t", "e", "n", "t", "-", "E", "n", "c", "o", "d", "i", "n", "g">>, <<"g", "z", "i", "p">>>>,
    <<<<"C", "o", "n", "t", "e", "n", "t", "-", "L", "e", "n", "g", "t", "h">>, <<"1", "0">>>>,
    <<<<"C", "O", "N", "T", "E", "N", "T", "-", "L", "E", "N", "G", "T", "H">>, <<"1", "0">>>>,
    <<<<"C", "o", "n", "n", "e", "c", "t", "i", "o", "n">>, <<"k", "e", "e", "p", "-", "a", "l", "i", "v", "e">>>>,
    <<<<"K", "e", "e", "p", "-", "A", "l", "i", "v", "e">>, <<"t", "i", "m", "e", "o", "u", "t", "=", "5">>>>,
    <<<<"T", "r", "a", "n", "s", "f", "e", "r", "-", "E", "n", "c", "o", "d", "i", "n", "g">>, <<"c", "h", "u", "n", "k", "e", "d">>>>,
    <<<<"S", "e", "t", "-", "C", "o", "o", "k", "i", "e">>, <<"a", "=", "1">>>>,
    <<<<"S", "e", "t", "-", "C", "o", "o", "k", "i", "e">>, <<"b", "=", "2">>>>,
    <<<<"s", "e", "t", "-", "c", "o", "o", "k", "i", "e">>, <<"c", "=", "3">>>>,
    <<<<"X", "-", "R", "e", "q", "u", "e", "s", "t", "-", "I", "d">>, <<"r", "1">>>> }

\* The upstream answers: status, header lines, and the body as the chunks it
\* arrives in.
UpstreamAnswers(n, chunks) ==
  [status : {200, 404},
   headers : SeqsUpTo(AnswerHeaderLines, n),
   body : {[i \in 1..k |-> i] : k \in 0..chunks}]

InitReply ==
  /\ InitProxy /\ InitRecords
  /\ input \in UpstreamAnswers(MaxAnswerHeaders, MaxChunks)
  /\ output = <<>>

\* The streamed relay, lines 521-525: status and headers go to the caller
\* before any of the body is read.
ReplyPrepare ==
  /\ output = <<>>
  /\ is_streaming(input.headers)
  /\ output' = <<[kind |-> "streamed", status |-> input.status,
                  headers |-> response_headers(input.headers),
                  body |-> <<>>, eof |-> FALSE]>>
  /\ ForwardFrame

\* The copy loop, lines 529-530: the next chunk is read and written.
ReplyCopy ==
  /\ Len(output) = 1 /\ output[1].kind = "streamed" /\ ~output[1].eof
  /\ Len(output[1].body) < Len(input.body)
  /\ output' = <<[output[1] EXCEPT !.body = Append(@, input.body[Len(@) + 1])]>>
  /\ ForwardFrame

\* await response.write_eof(), line 531.
ReplyEof ==
  /\ Len(output) = 1 /\ output[1].kind = "streamed" /\ ~output[1].eof
  /\ Len(output[1].body) = Len(input.body)
  /\ output' = <<[output[1] EXCEPT !.eof = TRUE]>>
  /\ ForwardFrame

\* The buffered relay, line 538: response_body = await resp.read().
ReplyRead ==
  /\ output = <<>>
  /\ ~is_streaming(input.headers)
  /\ output' = <<[kind |-> "read", body |-> input.body]>>
  /\ ForwardFrame

\* The buffered relay, lines 542-546: the Response is returned.
ReplyReturn ==
  /\ Len(output) = 1 /\ output[1].kind = "read"
  /\ output' = Append(output, [kind |-> "buffered", status |-> input.status,
                               headers |-> response_headers(input.headers),
                               body |-> output[1].body])
  /\ ForwardFrame

ReplyNext ==
  \/ ReplyPrepare
  \/ ReplyCopy
  \/ ReplyEof
  \/ ReplyRead
  \/ ReplyReturn

SpecReply == InitReply /\ [][ReplyNext]_vars

\* ------------------------------------------------ parse_command, on its own
\* The longest quantity of the commands parse_command is applied to.
MaxValueLen == 4

\* The characters of a quantity, and the starts of a command.
ValueChars == {"0", "3", ".", "%", "*", "-", "n", "a"}
CommandHeads ==
  { <<>>, <<"c">>, <<"c", " ">>, <<" ", "r">>, <<"u">>, <<"x">>, <<"C">>, <<"X", " ">> }

RECURSIVE StringsUpTo(_, _)
StringsUpTo(chars, n) ==
  IF n = 0 THEN {<<>>}
  ELSE LET shorter == StringsUpTo(chars, n - 1)
       IN shorter \cup {Append(w, c) : w \in shorter, c \in chars}

\* The commands: a head and a quantity of at most n characters.
ParseInputs(n) == {h \o v : h \in CommandHeads, v \in StringsUpTo(ValueChars, n)}

InitParse ==
  InitProxy /\ InitRecords /\ input \in ParseInputs(MaxValueLen) /\ output = <<>>

\* parse_command(input) is called and returns.
ParseApply ==
  /\ output = <<>>
  /\ output' = <<parse_command(input)>>
  /\ UNCHANGED <<error_mode, error_count, error_percentage, request_count, session,
                 main_pc, stdin_pc, cmds_read, stop_scheduled, running, reqs,
                 last_set, decided, args_mode, lines_read, printed, exit_code,
                 streams, input, locking>>

SpecParse == InitParse /\ [][ParseApply]_vars

\* --------------------------------------------------------- the lock, closely
\* Here `with self.lock:` is taken and left in steps of their own, and the
\* statements under it are steps of their own: the stdin thread and the thread
\* of the event loop interleave between any two of them.  Of the handlers one
\* runs at a time, from one await to the next.
LockLines == { <<"c">>, <<"r", " ", "5", "0", "%">>, <<"x">> }

LockRequests ==
  { q \in RequestInputs : q.path \in { <<"/", "v", "1", "/", "c", "h", "a", "t">>,
                                       <<"/", "o", "i", "d", "c", "/", "t">> } }

\* The proxy is serving after a start without --mode.
InitLock ==
  /\ error_mode = NO_ERROR
  /\ error_count = 0
  /\ error_percentage = FloatZero
  /\ last_set = [mode |-> NO_ERROR, count |-> 0, percentage |-> FloatZero]
  /\ request_count = 0
  /\ session = "open"
  /\ main_pc = "serving"
  /\ stdin_pc = "reading"
  /\ cmds_read = 0
  /\ stop_scheduled = FALSE
  /\ running = 0
  /\ reqs = <<>>
  /\ decided = <<>>
  /\ InitRecords
  /\ input = <<>>
  /\ output = <<>>

\* What a holder of the lock read: who, the three fields, and the arguments
\* of the last set_error_mode that had returned by then.
Observation(by) ==
  [by |-> by, mode |-> error_mode, count |-> error_count,
   percentage |-> error_percentage, of |-> last_set]

\* What a step of the stdin thread leaves alone.
StdinFrame ==
  UNCHANGED <<request_count, session, main_pc, stop_scheduled, running, reqs,
              args_mode, lines_read, printed, exit_code, streams, input, output>>

\* What a step of a handler leaves alone.
HandlerFrame ==
  UNCHANGED <<request_count, session, main_pc, stdin_pc, cmds_read, stop_scheduled,
              last_set, pending, args_mode, lines_read, printed, exit_code,
              streams, input, output>>

\* command = input(...).strip(); parse_command(command); `continue` on a line
\* that does not parse, else the call of set_error_mode.
LockReadLine(line) ==
  /\ stdin_pc = "reading"
  /\ cmds_read < MaxLines
  /\ cmds_read' = cmds_read + 1
  /\ LET p == parsed[Strip(line)] IN
     IF p.error_msg # NoMsg
     THEN UNCHANGED <<stdin_pc, pending>>
     ELSE stdin_pc' = "set_error_mode" /\ pending' = <<p>>
  /\ UNCHANGED <<injection, last_set, decided, lock, observed>>
  /\ StdinFrame

\* set_error_mode as it would be without `with self.lock:`: the fields are
\* written whoever holds the lock.
SetAcquire_NoLock ==
  /\ stdin_pc = "set_error_mode"
  /\ stdin_pc' = "set_mode"
  /\ UNCHANGED <<injection, last_set, decided, cmds_read, lock, pending, observed>>
  /\ StdinFrame

\* set_error_mode: `with self.lock:` is entered.
SetAcquire ==
  /\ stdin_pc = "set_error_mode"
  /\ lock = "free"
  /\ lock' = "stdin"
  /\ stdin_pc' = "set_mode"
  /\ UNCHANGED <<injection, last_set, decided, cmds_read, pending, observed>>
  /\ StdinFrame

\* self.error_mode = mode
SetWriteMode ==
  /\ stdin_pc = "set_mode"
  /\ error_mode' = pending[1].mode
  /\ stdin_pc' = "set_count"
  /\ UNCHANGED <<error_count, error_percentage, last_set, decided, cmds_read, lock,
                 pending, observed>>
  /\ StdinFrame

\* self.error_count = count
SetWriteCount ==
  /\ stdin_pc = "set_count"
  /\ error_count' = pending[1].count
  /\ stdin_pc' = "set_percentage"
  /\ UNCHANGED <<error_mode, error_percentage, last_set, decided, cmds_read, lock,
                 pending, observed>>
  /\ StdinFrame

\* self.error_percentage = percentage, and the lock is left: set_error_mode
\* returns.
SetWritePercentage ==
  /\ stdin_pc = "set_percentage"
  /\ error_percentage' = pending[1].percentage
  /\ lock' = "free"
  /\ last_set' = [mode |-> pending[1].mode, count |-> pending[1].count,
                  percentage |-> pending[1].percentage]
  /\ decided' = <<>>
  /\ stdin_pc' = "print_status"
  /\ pending' = <<>>
  /\ UNCHANGED <<error_mode, error_count, cmds_read, observed>>
  /\ StdinFrame

\* print_status as it would be if get_error_config read the fields without
\* `with self.lock:`.
PrintStatusAcquire_NoLock ==
  /\ stdin_pc = "print_status"
  /\ stdin_pc' = "get_error_config"
  /\ UNCHANGED <<injection, last_set, decided, cmds_read, lock, pending, observed>>
  /\ StdinFrame

\* print_status: get_error_config enters `with self.lock:`.
PrintStatusAcquire ==
  /\ stdin_pc = "print_status"
  /\ lock = "free"
  /\ lock' = "stdin"
  /\ stdin_pc' = "get_error_config"
  /\ UNCHANGED <<injection, last_set, decided, cmds_read, pending, observed>>
  /\ StdinFrame

\* return (self.error_mode, self.error_count, self.error_percentage), the lock
\* is left, and the panel is printed.
PrintStatusRead ==
  /\ stdin_pc = "get_error_config"
  /\ observed' = <<Observation("stdin")>>
  /\ lock' = "free"
  /\ stdin_pc' = "reading"
  /\ UNCHANGED <<injection, last_set, decided, cmds_read, pending>>
  /\ StdinFrame

\* get_error_mode enters `with self.lock:`.
ModeAcquire(r) ==
  /\ running = r
  /\ reqs[r].pc = "get_error_mode"
  /\ lock = "free"
  /\ lock' = "loop"
  /\ reqs' = [reqs EXCEPT ![r].pc = "get_error_mode.locked"]
  /\ UNCHANGED <<injection, running, decided, observed>>
  /\ HandlerFrame

\* return self.error_mode, and the lock is left.
ModeRead(r) ==
  /\ running = r
  /\ reqs[r].pc = "get_error_mode.locked"
  /\ lock' = "free"
  /\ reqs' = [reqs EXCEPT ![r].pc = "should_inject_error",
                          ![r].mode_before_check = error_mode]
  /\ UNCHANGED <<injection, running, decided, observed>>
  /\ HandlerFrame

\* should_inject_error enters `with self.lock:`.
DecideAcquire(r) ==
  /\ running = r
  /\ reqs[r].pc = "should_inject_error"
  /\ lock = "free"
  /\ lock' = "loop"
  /\ reqs' = [reqs EXCEPT ![r].pc = "should_inject_error.locked"]
  /\ UNCHANGED <<injection, running, decided, observed>>
  /\ HandlerFrame

\* The tests of should_inject_error and, in count mode, self.error_count -= 1.
\* A count that reaches 0 leaves the reset of the mode to the next statement.
DecideTest(r, rnd) ==
  /\ running = r
  /\ reqs[r].pc = "should_inject_error.locked"
  /\ observed' = <<Observation("loop")>>
  /\ decided' = Append(decided, r)
  /\ IF error_mode = NO_ERROR
     THEN /\ reqs' = [reqs EXCEPT ![r].pc = "should_inject_error.return",
                                  ![r].decision_mode = error_mode,
                                  ![r].should_error = FALSE]
          /\ UNCHANGED injection
     ELSE IF FloatGt(error_percentage, FloatZero)
     THEN /\ reqs' = [reqs EXCEPT ![r].pc = "should_inject_error.return",
                                  ![r].decision_mode = error_mode,
                                  ![r].should_error = FloatLt(rnd, error_percentage)]
          /\ UNCHANGED injection
     ELSE IF error_count > 0
     THEN /\ error_count' = error_count - 1
          /\ reqs' = [reqs EXCEPT ![r].pc = IF error_count - 1 = 0
                                            THEN "should_inject_error.reset"
                                            ELSE "should_inject_error.return",
                                  ![r].decision_mode = error_mode,
                                  ![r].should_error = TRUE]
          /\ UNCHANGED <<error_mode, error_percentage>>
     ELSE /\ error_mode' = IF error_count = 0 /\ error_percentage = FloatZero
                           THEN NO_ERROR ELSE error_mode
          /\ reqs' = [reqs EXCEPT ![r].pc = "should_inject_error.return",
                                  ![r].decision_mode = error_mode,
                                  ![r].should_error = FALSE]
          /\ UNCHANGED <<error_count, error_percentage>>
  /\ UNCHANGED <<lock, running>>
  /\ HandlerFrame

\* self.error_mode = ErrorMode.NO_ERROR after the last error of the count.
DecideReset(r) ==
  /\ running = r
  /\ reqs[r].pc = "should_inject_error.reset"
  /\ error_mode' = NO_ERROR
  /\ reqs' = [reqs EXCEPT ![r].pc = "should_inject_error.return"]
  /\ UNCHANGED <<error_count, error_percentage, lock, running, decided, observed>>
  /\ HandlerFrame

\* DecideRelease as it would be if should_inject_error returned False with the
\* lock still held.
DecideRelease_KeepsLock(r) ==
  /\ running = r
  /\ reqs[r].pc = "should_inject_error.return"
  /\ IF reqs[r].should_error
     THEN /\ lock' = "free"
          /\ reqs' = [reqs EXCEPT
               ![r].pc = "_format_status_line",
               ![r].response =
                 LET cfg == error_config(reqs[r].provider, reqs[r].mode_before_check)
                 IN [kind |-> "injected", status |-> cfg.status, body |-> cfg.body]]
          /\ UNCHANGED running
     ELSE /\ UNCHANGED lock
          /\ reqs' = [reqs EXCEPT ![r].pc = "forward"]
          /\ running' = 0
  /\ UNCHANGED <<injection, decided, observed>>
  /\ HandlerFrame

\* should_inject_error returns and the lock is left.  On True the error
\* response is built and the status line is next; on False the handler goes
\* on to the forwarding code and waits there (await request.read()).
DecideRelease(r) ==
  /\ running = r
  /\ reqs[r].pc = "should_inject_error.return"
  /\ lock' = "free"
  /\ IF reqs[r].should_error
     THEN /\ reqs' = [reqs EXCEPT
               ![r].pc = "_format_status_line",
               ![r].response =
                 LET cfg == error_config(reqs[r].provider, reqs[r].mode_before_check)
                 IN [kind |-> "injected", status |-> cfg.status, body |-> cfg.body]]
          /\ UNCHANGED running
     ELSE /\ reqs' = [reqs EXCEPT ![r].pc = "forward"]
          /\ running' = 0
  /\ UNCHANGED <<injection, decided, observed>>
  /\ HandlerFrame

\* Upstream has answered and the relay is over (the buffered body is read, or
\* the copy loop of the stream has ended): the handler runs again, with the
\* response built, and the status line is next.
LockRelayed(r, kind, status) ==
  /\ main_pc = "serving"
  /\ running = 0
  /\ reqs[r].pc = "forward"
  /\ session = "open"
  /\ running' = r
  /\ reqs' = [reqs EXCEPT ![r].pc = "_format_status_line",
                          ![r].upstream_called = TRUE,
                          ![r].response = [kind |-> kind, status |-> status, body |-> <<"upstream">>]]
  /\ UNCHANGED <<injection, lock, decided, observed>>
  /\ HandlerFrame

\* _format_status_line: get_error_config enters `with self.lock:`.
ConfigAcquire(r) ==
  /\ running = r
  /\ reqs[r].pc = "_format_status_line"
  /\ lock = "free"
  /\ lock' = "loop"
  /\ reqs' = [reqs EXCEPT ![r].pc = "get_error_config"]
  /\ UNCHANGED <<injection, running, decided, observed>>
  /\ HandlerFrame

\* return (self.error_mode, self.error_count, self.error_percentage), the lock
\* is left, the status is logged and the handler returns its response.
ConfigRead(r) ==
  /\ running = r
  /\ reqs[r].pc = "get_error_config"
  /\ observed' = <<Observation("loop")>>
  /\ lock' = "free"
  /\ reqs' = [reqs EXCEPT ![r].pc = "done"]
  /\ running' = 0
  /\ UNCHANGED <<injection, decided>>
  /\ HandlerFrame

RelayKinds == {"buffered", "streamed"}

LockNext ==
  \/ \E c \in LockLines : LockReadLine(c)
  \/ SetAcquire
  \/ SetWriteMode
  \/ SetWriteCount
  \/ SetWritePercentage
  \/ PrintStatusAcquire
  \/ PrintStatusRead
  \/ \E q \in LockRequests : Receive(q) /\ UNCHANGED aux
  \/ \E r \in Requests : ModeAcquire(r)
  \/ \E r \in Requests : ModeRead(r)
  \/ \E r \in Requests : DecideAcquire(r)
  \/ \E r \in Requests, rnd \in RandomValues : DecideTest(r, rnd)
  \/ \E r \in Requests : DecideReset(r)
  \/ \E r \in Requests : DecideRelease(r)
  \/ \E r \in Requests, k \in RelayKinds, st \in UpstreamStatuses : LockRelayed(r, k, st)
  \/ \E r \in Requests : UpstreamFailed(r) /\ UNCHANGED aux
  \/ \E r \in Requests : ConfigAcquire(r)
  \/ \E r \in Requests : ConfigRead(r)

SpecLock == InitLock /\ [][LockNext]_vars

\* ------------------------------------------------------------- properties
Min(a, b) == IF a < b THEN a ELSE b

Injected(r) == reqs[r].response.kind = "injected"

\* The request took its injection decision (should_inject_error returned).
Decided(r) == reqs[r].decision_mode # None

\* A path that holds one of the always-forward substrings.
ExemptPath(path) ==
  \/ Contains(<<"/", "o", "i", "d", "c", "/">>, path)
  \/ Contains(<<"/", ".", "w", "e", "l", "l", "-", "k", "n", "o", "w", "n", "/">>, path)
  \/ Contains(<<"/", "o", "a", "u", "t", "h">>, path)
  \/ Contains(<<"/", "a", "p", "i", "/", "2", ".", "0", "/">>, path)

\* The response the proxy synthesizes for provider and mode.
Template(provider, mode) ==
  [kind |-> "injected", status |-> ERROR_CONFIGS(provider, mode).status,
   body |-> <<provider, mode>>]

\* The step is a set_error_mode: of main() for --mode, or of the stdin_reader.
SetModeStep == main_pc = "main" \/ cmds_read' # cmds_read

\* The number of injected errors among the requests decided since the last
\* set_error_mode.
InjectedSince == Cardinality({i \in 1..Len(decided) : reqs[decided[i]].should_error})

CountModeSet == last_set.mode # NO_ERROR /\ ~FloatGt(last_set.percentage, FloatZero)

\* C1: count-mode exactness.  After set_error_mode(CONTEXT_LENGTH, N, 0.0) the
\* first N requests that take their decision each get the CONTEXT_LENGTH
\* template and status of their provider, every later one is forwarded, and
\* from request N+1 on the mode reads NO_ERROR.
C1_CountModeExactness ==
  (last_set.mode = CONTEXT_LENGTH /\ last_set.percentage = FloatZero) =>
    /\ \A i \in 1..Len(decided) :
         LET q == reqs[decided[i]] IN
         IF i <= last_set.count
         THEN q.response = Template(q.provider, CONTEXT_LENGTH)
         ELSE ~q.should_error /\ q.response.kind # "injected"
    /\ Len(decided) > last_set.count => error_mode = NO_ERROR

\* C2: the mode that selects the template of an injected error is the mode
\* the injection state held when the decision was taken.
C2_ModeUsedIsDecisionMode ==
  \A r \in 1..request_count :
    Injected(r) =>
      /\ reqs[r].mode_before_check = reqs[r].decision_mode
      /\ reqs[r].response = Template(reqs[r].provider, reqs[r].decision_mode)

\* C3: no double consumption.  In count mode with count N at the last
\* set_error_mode, K decided requests got exactly min(N, K) injected errors,
\* the remaining count is N less those, and it is never negative.
C3_NoDoubleConsumption ==
  /\ error_count >= 0
  /\ CountModeSet =>
       /\ InjectedSince = Min(last_set.count, Len(decided))
       /\ error_count = last_set.count - InjectedSince

C3_Witness ==
  /\ CountModeSet
  /\ last_set.count = 1
  /\ Len(decided) = 2
  /\ InjectedSince = 1

\* C4: mode NO_ERROR implies a count of 0 and a percentage of 0.
C4_NoErrorImpliesZero ==
  error_mode = NO_ERROR => error_count = 0 /\ error_percentage = FloatZero

\* C5: the count and the percentage are never both positive.
C5_CountXorPercentage ==
  ~(error_count > 0 /\ FloatGt(error_percentage, FloatZero))

C5_Witness ==
  /\ FloatGt(error_percentage, FloatZero)
  /\ error_count = 0
  /\ \E r \in 1..request_count : Decided(r) /\ Injected(r)

\* C6: a request whose path holds an always-forward substring is never
\* answered with an injected error.
C6_ExemptNeverInjected ==
  \A r \in 1..request_count :
    ExemptPath(reqs[r].path) => ~Injected(r) /\ ~reqs[r].should_error

\* An exempt request was answered from upstream while every decision injects.
C6_Witness ==
  /\ error_mode # NO_ERROR
  /\ error_percentage = FloatOne
  /\ \E r \in 1..request_count :
       /\ ExemptPath(reqs[r].path)
       /\ Contains(<<"/", "o", "a", "u", "t", "h">>, reqs[r].path)
       /\ reqs[r].response.kind = "buffered"

\* A step of an always-forward request: it arrives, or its record changes.
ExemptStep ==
  \E r \in 1..request_count' :
    /\ (r > request_count \/ reqs'[r] # reqs[r])
    /\ ExemptPath(reqs'[r].path)

\* C7: handling an always-forward request leaves mode, count and percentage
\* unchanged and takes no injection decision.
C7_ExemptLeavesState ==
  [][ExemptStep => (UNCHANGED injection /\ decided' = decided)]_vars

\* An exempt request was answered while a count was pending, and the count
\* was then consumed in full by the other requests.
C7_Witness ==
  /\ CountModeSet
  /\ last_set.count = 1
  /\ InjectedSince = 1
  /\ \E r \in 1..request_count :
       /\ ExemptPath(reqs[r].path)
       /\ reqs[r].pc = "done"
       /\ \E q \in 1..request_count : q > r /\ Injected(q)

\* C8: in percentage mode no step but a set_error_mode changes mode, count or
\* percentage.
C8_PercentageModeStable ==
  [][(FloatGt(error_percentage, FloatZero) /\ ~SetModeStep) => UNCHANGED injection]_vars

\* Two requests were decided in percentage mode, one injected and one not.
C8_Witness ==
  /\ FloatGt(error_percentage, FloatZero)
  /\ error_mode = RATE_LIMIT
  /\ Len(decided) = 2
  /\ InjectedSince = 1

\* C9: a request whose decision is true is answered with the synthesized error
\* and makes no upstream call; a request that reaches the forwarding code is
\* exempt or its decision was false.
C9_InjectedNeverForwarded ==
  \A r \in 1..request_count :
    /\ reqs[r].should_error =>
         /\ Injected(r)
         /\ reqs[r].pc = "done"
         /\ ~reqs[r].upstream_called
    /\ (reqs[r].upstream_called \/ reqs[r].pc = "forward") =>
         \/ ExemptPath(reqs[r].path)
         \/ (Decided(r) /\ ~reqs[r].should_error)
    /\ Injected(r) => reqs[r].should_error

C9_Witness ==
  \E r, q \in 1..request_count :
    /\ Injected(r)
    /\ ~ExemptPath(reqs[q].path)
    /\ reqs[q].upstream_called
    /\ reqs[q].response.kind = "streamed"

\* C10: while the mode is NO_ERROR no request is injected, and no step but a
\* set_error_mode changes mode, count or percentage.
C10_NoErrorInjectsNothing ==
  [][(error_mode = NO_ERROR /\ ~SetModeStep) =>
       /\ UNCHANGED injection
       /\ \A r \in 1..request_count' :
            reqs'[r].response.kind = "injected" => (r <= request_count /\ Injected(r))]_vars

\* A request was decided, and forwarded, in the state the command n leaves.
C10_Witness ==
  /\ error_mode = NO_ERROR
  /\ error_count = 1
  /\ \E r \in 1..request_count :
       /\ reqs[r].decision_mode = NO_ERROR
       /\ ~reqs[r].should_error
       /\ reqs[r].pc = "done"

\* The messages parse_command gives for a line it does not take.
ParseErrorKinds ==
  {"Empty command", "Invalid command", "Invalid value", "Invalid percentage", "Invalid count"}

\* C11: a turn of the control loop on a line that does not parse (unknown
\* letter, percentage out of range, negative count, quantity that is no number,
\* empty line) prints an error message, leaves mode, count and percentage as
\* they were, and leaves the loop reading.
C11_BadLineLeavesState ==
  [][(Len(lines_read') > Len(lines_read) /\ lines_read'[Len(lines_read')] \in CtlBadLines)
       => /\ UNCHANGED <<injection, stop_scheduled>>
          /\ printed'[1] \in ParseErrorKinds
          /\ stdin_pc' = "reading"]_vars

\* A line that parses is read and installed after a line that did not parse.
C11_Witness ==
  /\ Len(lines_read) = 2
  /\ lines_read[1] \in CtlBadLines
  /\ lines_read[2] = <<"c", " ", "2">>
  /\ last_set.mode = CONTEXT_LENGTH /\ last_set.count = 2
  /\ printed = <<"status">>

\* ------------------------------------------------------------------------
\* The grammar of control commands: blanks are dropped; the first character
\* selects the mode; nothing after it is count 1; "*" is percentage 1.0; "N%"
\* is percentage N/100; a quantity with "." is that percentage; anything else
\* is a count; the percentage lies in [0, 1] and the count is not negative.
GrammarError == [ok |-> FALSE, letter |-> ""]
GrammarBadLetter(c) == [ok |-> FALSE, letter |-> c]
GrammarOk(mode, count, num, den) ==
  [ok |-> TRUE, mode |-> mode, count |-> count, num |-> num, den |-> den]

GrammarMode(c) ==
  CASE c = "n" -> NO_ERROR [] c = "c" -> CONTEXT_LENGTH
    [] c = "r" -> RATE_LIMIT [] c = "u" -> SERVER_ERROR

\* A numeral: an optional "-", then digits with at most one "." among them and
\* at least one digit.
NumeralBody(s) == IF s # <<>> /\ s[1] = "-" THEN Tail(s) ELSE s
IsNumeral(s) ==
  LET b == NumeralBody(s)
      dots == {i \in 1..Len(b) : b[i] = "."}
      digs == {i \in 1..Len(b) : b[i] \in Digits}
  IN Cardinality(dots) <= 1 /\ digs # {} /\ dots \cup digs = 1..Len(b)

RECURSIVE ReadDigits(_, _)
ReadDigits(s, acc) ==
  IF s = <<>> THEN acc ELSE ReadDigits(Tail(s), 10 * acc + DigitVal(Head(s)))

\* The numeral's value as numerator and denominator.
NumeralNum(s) ==
  (IF s[1] = "-" THEN -1 ELSE 1) * ReadDigits(SelectSeq(NumeralBody(s), LAMBDA c : c \in Digits), 0)
NumeralDen(s) ==
  LET b == NumeralBody(s)
      after == {i \in 1..Len(b) : \E j \in 1..(i - 1) : b[j] = "."}
  IN Pow10(Cardinality(after))

GrammarQuantity(mode, q) ==
  IF q = <<>> THEN GrammarOk(mode, 1, 0, 1)
  ELSE IF q = <<"*">> THEN GrammarOk(mode, 0, 1, 1)
  ELSE IF q[Len(q)] = "%" THEN
    LET n == SubSeq(q, 1, Len(q) - 1) IN
    IF IsNumeral(n) /\ 0 <= NumeralNum(n) /\ NumeralNum(n) <= 100 * NumeralDen(n)
    THEN GrammarOk(mode, 0, NumeralNum(n), 100 * NumeralDen(n))
    ELSE GrammarError
  ELSE IF \E i \in 1..Len(q) : q[i] = "." THEN
    IF IsNumeral(q) /\ 0 <= NumeralNum(q) /\ NumeralNum(q) <= NumeralDen(q)
    THEN GrammarOk(mode, 0, NumeralNum(q), NumeralDen(q))
    ELSE GrammarError
  ELSE
    IF IsNumeral(q) /\ NumeralNum(q) >= 0
    THEN GrammarOk(mode, NumeralNum(q), 0, 1)
    ELSE GrammarError

\* The grammar's reading of a command, the letter taken as typed or in either
\* case.
Grammar(command, either_case) ==
  LET t == SelectSeq(command, LAMBDA c : c # " ") IN
  IF t = <<>> THEN GrammarError
  ELSE LET letter == IF either_case THEN LowerChar(t[1]) ELSE t[1] IN
    IF letter \notin {"n", "c", "r", "u"} THEN GrammarBadLetter(letter)
    ELSE GrammarQuantity(GrammarMode(letter), Tail(t))

\* The result p of parse_command is what the grammar reading g says.
Agrees(p, g) ==
  IF p.error_msg = NoMsg
  THEN /\ g.ok
       /\ p.mode = g.mode
       /\ p.count = g.count
       /\ p.percentage[1] * g.den = g.num * p.percentage[2]
       /\ p.percentage[2] > 0
  ELSE /\ ~g.ok
       /\ (g.letter # "") = (p.error_msg[1] = "Invalid command")
       /\ g.letter # "" => p.error_msg[2] = g.letter

\* The commands of the alphabet of mode letters, digits, ".", "%", "*", "-"
\* and blank.
GrammarChars == {"n", "c", "r", "u", "x", "C", "X", "0", "3", ".", "%", "*", "-", " "}
OverGrammarChars(command) == \A i \in 1..Len(command) : command[i] \in GrammarChars

\* C12 as stated: for every command over the alphabet, parse_command returns
\* what the grammar says, the first character selecting the mode as typed (n,
\* c, r, u; any other character is an error naming it).
C12_AgreesWithGrammar ==
  (output # <<>> /\ OverGrammarChars(input)) => Agrees(output[1], Grammar(input, FALSE))

\* C12 amended: for every command over the alphabet, parse_command returns
\* what the grammar says, the first character selecting the mode in either
\* case (N, C, R, U as n, c, r, u; any other character is an error naming it
\* in lower case).
C12_AgreesWithGrammarEitherCase ==
  (output # <<>> /\ OverGrammarChars(input)) => Agrees(output[1], Grammar(input, TRUE))

\* "C30%" is read as CONTEXT_LENGTH with percentage 0.3.
C12_Witness ==
  /\ input = <<"C", "3", "0", "%">>
  /\ output = <<ParseOk(CONTEXT_LENGTH, 0, <<3, 10>>)>>

\* p is a number of [0, 1].
InUnitInterval(p) == p[2] > 0 /\ 0 <= p[1] /\ p[1] <= p[2]

\* C13: parse_command never returns a successful result whose percentage is
\* outside [0, 1] or whose count is negative.
C13_ParsedInRange ==
  (output # <<>> /\ output[1].error_msg = NoMsg)
    => (InUnitInterval(output[1].percentage) /\ output[1].count >= 0)

\* C14: once main() has read a --mode that does not parse, the process has
\* ended: in no later state is the listener open, a session created, a request
\* received or the stdin thread started.
C14_BadModeAbortsStartup ==
  (args_mode # <<>> /\ args_mode[1] \in LifeBadArgs)
    => /\ main_pc = "exited"
       /\ ~ListenerOpen
       /\ session = "none"
       /\ request_count = 0 /\ reqs = <<>>
       /\ stdin_pc = "off"

\* main() has ended on --mode "r 150%".
C14_Witness ==
  /\ args_mode = << <<"r", " ", "1", "5", "0", "%">> >>
  /\ main_pc = "exited"
  /\ exit_code # NotExited

\* C15: the exit status is 0 when the process ends by a quit (q, end of input
\* or Ctrl+C, through the cleanup) and is not 0 when it ends because --mode
\* does not parse.
C15_ExitCodes ==
  /\ main_pc = "finished" => exit_code = 0
  /\ main_pc = "exited" => (exit_code # NotExited /\ exit_code # 0)

\* The response of the except branch of handle_request.
ProxyError(resp) == resp.kind = "proxy_error" /\ resp.status = 500

\* Request r ends in this step without a response relayed from upstream.
FailsUpstream(r) ==
  /\ reqs[r].pc \in {"forward", "prepare"}
  /\ reqs'[r].pc = "done"
  /\ reqs'[r].response.kind # "buffered"

\* C16: a request whose upstream call or buffered read fails ends with the
\* JSON response of status 500; the step leaves mode, count and percentage,
\* the session, the server and every other request as they were.
C16_UpstreamFailureIsLocal ==
  [][\A r \in Requests :
       FailsUpstream(r)
         => /\ ProxyError(reqs'[r].response)
            /\ UNCHANGED <<injection, session, main_pc, request_count>>
            /\ \A q \in Requests \ {r} : reqs'[q] = reqs[q] /\ streams'[q] = streams[q]]_vars

\* One request has failed upstream, with the mode armed; the other has been
\* relayed in full.
C16_Witness ==
  /\ request_count = 2
  /\ ProxyError(reqs[1].response) /\ reqs[1].upstream_called
  /\ reqs[2].response.kind = "buffered"
  /\ error_mode = CONTEXT_LENGTH

\* The chunks the caller of request r was sent.
SentChunks(r) == SelectSeq(streams[r].sent, LAMBDA item : item[1] = "chunk")

\* C17: in a streamed relay the status goes to the caller before anything
\* else; the k-th chunk written is the k-th chunk upstream yielded; every
\* chunk read is written before the next is read; the end-of-stream marker is
\* the last item and follows all the chunks of the body.
C17_StreamOrdering ==
  \A r \in Requests :
    LET st == streams[r]
        n == Len(st.sent)
    IN /\ n > 0 => st.sent[1] = <<"head", st.status>>
       /\ reqs[r].pc \in {"read", "write", "eof"} => n > 0
       /\ \A i \in 2..n :
            \/ i - 1 <= Len(st.body) /\ st.sent[i] = <<"chunk", st.body[i - 1]>>
            \/ st.sent[i] = <<"eof", 0>> /\ i = n /\ n - 2 = Len(st.body)
       /\ Len(SentChunks(r)) = st.next - Len(st.chunk)
       /\ Len(st.chunk) <= 1
       /\ reqs[r].pc # "write" => (st.chunk = <<>> \/ st.broken # "no")
       /\ (reqs[r].pc = "done" /\ reqs[r].response.kind = "streamed" /\ st.broken = "no")
            => st.sent[n] = <<"eof", 0>>

\* Two relays have run side by side to the end, each with its two chunks.
C17_Witness ==
  /\ request_count = 2
  /\ \A r \in {1, 2} :
       /\ reqs[r].pc = "done"
       /\ streams[r].sent = << <<"head", 200>>, <<"chunk", 1>>, <<"chunk", 2>>, <<"eof", 0>> >>

\* The write to the caller of request r fails in this step.
Disconnects(r) == streams[r].broken = "no" /\ streams'[r].broken = "downstream"

\* A relay that ended unbroken delivered status, every chunk and the marker.
Delivered(r) ==
  (reqs[r].pc = "done" /\ reqs[r].response.kind = "streamed" /\ streams[r].broken = "no")
    => /\ SentChunks(r) = [i \in 1..Len(streams[r].body) |-> <<"chunk", streams[r].body[i]>>]
       /\ Len(streams[r].sent) = Len(streams[r].body) + 2

\* C18: when the write to the caller fails in the copy loop, the handler of
\* that request returns its response; the server keeps serving, the session
\* stays open, no other request or relay is touched, and every relay that
\* ends unbroken has delivered its whole body.
C18_DisconnectIsLocal ==
  [][/\ \A r \in Requests :
          (Disconnects(r) /\ reqs[r].pc \in {"write", "eof"})
            => /\ reqs'[r].pc = "done"
               /\ reqs'[r].response = [kind |-> "streamed", status |-> streams[r].status,
                                       body |-> <<"upstream">>]
               /\ UNCHANGED <<injection, session, main_pc, request_count>>
               /\ session = "open" /\ main_pc = "serving"
               /\ \A q \in Requests \ {r} : reqs'[q] = reqs[q] /\ streams'[q] = streams[q]
     /\ \A r \in 1..request_count' : Delivered(r)']_vars

\* The caller of request 1 went away after the first chunk; request 2 has
\* ended with its whole body.
C18_Witness ==
  /\ request_count = 2
  /\ streams[1].broken = "downstream"
  /\ streams[1].sent = << <<"head", 200>>, <<"chunk", 1>> >>
  /\ reqs[1].pc = "done"
  /\ streams[2].broken = "no"
  /\ reqs[2].pc = "done"
  /\ streams[2].sent = << <<"head", 200>>, <<"chunk", 1>>, <<"chunk", 2>>, <<"eof", 0>> >>

\* The path markers of databricks.
DatabricksMarkers ==
  { <<"/", "s", "e", "r", "v", "i", "n", "g", "-", "e", "n", "d", "p", "o", "i", "n", "t", "s", "/">>,
    <<"/", "a", "p", "i", "/", "2", ".", "0", "/">>,
    <<"/", "o", "i", "d", "c", "/">> }

\* The path holds a databricks marker, as written.
HasDatabricksMarker(path) ==
  \E m \in DatabricksMarkers : \E i \in 1..Len(path) :
    /\ i + Len(m) - 1 <= Len(path)
    /\ \A j \in 1..Len(m) : path[i + j - 1] = m[j]

\* C19: a request whose path holds a databricks marker is classified as
\* databricks whatever headers it carries.
C19_DatabricksPathFirst ==
  (output # <<>> /\ HasDatabricksMarker(input.path)) => output = <<"databricks">>

\* A request to a serving endpoint with an x-api-key, an x-goog-api-key and a
\* bearer authorization is classified as databricks.
C19_Witness ==
  /\ input.path = <<"/", "s", "e", "r", "v", "i", "n", "g", "-", "e", "n", "d", "p", "o", "i", "n", "t", "s", "/", "m">>
  /\ DOMAIN input.headers = {"x-api-key", "x-goog-api-key", "authorization"}
  /\ input.headers["authorization"] = Bearer
  /\ output = <<"databricks">>

\* C20: every injected response of a request detected as provider p has the
\* status and the body of one of the error templates of p.
C20_OwnProviderTemplate ==
  \A r \in Requests :
    Injected(r)
      => \E m \in {CONTEXT_LENGTH, RATE_LIMIT, SERVER_ERROR} :
           /\ reqs[r].response.status = ERROR_CONFIGS(reqs[r].provider, m).status
           /\ reqs[r].response.body = ERROR_CONFIGS(reqs[r].provider, m).body

\* The operator asked for the shutdown: the stdin_reader read q or met the end
\* of its input, scheduled shutdown_server and ended.
ShutdownTriggered == stdin_pc = "done"

\* run_forever has returned, or main() never reached it.
LoopStopped == main_pc \in {"cleanup", "finished", "crashed"}

\* C21: shutdown ordering.  A shutdown the operator asked for stays pending
\* until the serving loop has stopped (it is never lost while the listener
\* goes on accepting requests); the session is closed only once the loop has
\* stopped; and when the process has ended no session is left open.
C21_ShutdownOrdering ==
  /\ ShutdownTriggered => (stop_scheduled \/ LoopStopped)
  /\ session = "closed" => LoopStopped
  /\ main_pc \in {"finished", "crashed"} => session # "open"

\* The states of the three fields that set_error_mode(s.mode, s.count,
\* s.percentage) and the consumption of its count lead to.
Derived(s) ==
  {<<s.mode, s.count, s.percentage>>}
    \cup IF s.mode = NO_ERROR \/ FloatGt(s.percentage, FloatZero)
         THEN {}
         ELSE {<<s.mode, k, s.percentage>> : k \in 1..(s.count - 1)}
                \cup {<<NO_ERROR, 0, s.percentage>>}

\* Where a handler is inside a `with self.lock:`, and where the stdin thread is.
HandlerLockedPcs ==
  {"get_error_mode.locked", "should_inject_error.locked", "should_inject_error.reset",
   "should_inject_error.return", "get_error_config"}
StdinLockedPcs == {"set_mode", "set_count", "set_percentage", "get_error_config"}

\* Where a handler, and the stdin thread, is about to enter one.
HandlerAcquirePcs == {"get_error_mode", "should_inject_error", "_format_status_line"}
StdinAcquirePcs == {"set_error_mode", "print_status"}

\* The handler that holds the lock takes a step.
HolderStep ==
  \E r \in Requests :
    \/ ModeRead(r)
    \/ \E rnd \in RandomValues : DecideTest(r, rnd)
    \/ DecideReset(r)
    \/ DecideRelease(r)
    \/ ConfigRead(r)

\* C22: the control plane never waits for requests in flight.  The lock is
\* held by the event loop only for the handler that runs now and only inside
\* a `with self.lock:`, so never by a request that waits for upstream or for
\* a stream write; no thread enters the lock while it holds it; when the
\* stdin thread waits for the lock, its holder can go on without waiting for
\* anything; and whenever the lock is free the three fields are what the last
\* set_error_mode that returned wrote, less the count consumed since.
C22_ControlNeverWaits ==
  /\ lock = "loop" => (running # 0 /\ reqs[running].pc \in HandlerLockedPcs)
  /\ lock = "stdin" <=> stdin_pc \in StdinLockedPcs
  /\ \A r \in Requests : reqs[r].pc \in HandlerLockedPcs => (running = r /\ lock = "loop")
  /\ (running # 0 /\ reqs[running].pc \in HandlerAcquirePcs) => lock # "loop"
  /\ stdin_pc \in StdinAcquirePcs => lock # "stdin"
  /\ (stdin_pc \in StdinAcquirePcs /\ lock = "loop") => ENABLED HolderStep
  /\ lock = "free" => injection \in Derived(last_set)

\* A set_error_mode has returned and the next decision has injected its error
\* while an earlier request is still waiting for upstream.
C22_Witness ==
  /\ request_count = 2
  /\ reqs[1].pc = "forward" /\ reqs[1].decision_mode = NO_ERROR
  /\ ~ExemptPath(reqs[1].path)
  /\ last_set.mode = RATE_LIMIT
  /\ reqs[2].decision_mode = RATE_LIMIT /\ reqs[2].should_error
  /\ reqs[2].pc = "done"

\* C23: set_error_mode replaces the three fields as one: whatever
\* get_error_config (for the status panel and the status line) and
\* should_inject_error read is what one set_error_mode that had returned
\* wrote, less the count consumed since, never fields of two calls.
C23_SetModeAtomic ==
  \A i \in 1..Len(observed) :
    <<observed[i].mode, observed[i].count, observed[i].percentage>> \in Derived(observed[i].of)

\* A decision reads the fields while the stdin thread, with a new mode to
\* install, waits for the lock.
C23_Witness ==
  /\ stdin_pc = "set_error_mode"
  /\ pending # <<>> /\ pending[1].mode = RATE_LIMIT
  /\ last_set.mode = CONTEXT_LENGTH
  /\ lock = "loop"
  /\ observed # <<>> /\ observed[1].by = "loop"
  /\ running # 0 /\ reqs[running].pc = "should_inject_error.return"

\* The count has reached 0 and the mode is not yet reset.
MidConsume == \E r \in Requests : reqs[r].pc = "should_inject_error.reset"

\* C25: the decrement of the count to 0 and the reset of the mode are one step
\* for every other holder of the lock: in between, the lock is held by the
\* handler that decrements, the stdin thread is in no `with self.lock:`, and
\* nothing read under the lock shows a mode other than NO_ERROR with count 0
\* and percentage 0 after a count of more than 0 was set.
C25_ConsumeIsAtomic ==
  /\ MidConsume =>
       /\ lock = "loop"
       /\ running # 0 /\ reqs[running].pc = "should_inject_error.reset"
       /\ stdin_pc \notin StdinLockedPcs
  /\ \A i \in 1..Len(observed) :
       ~ /\ observed[i].of.count > 0
         /\ observed[i].mode # NO_ERROR
         /\ observed[i].count = 0
         /\ observed[i].percentage = FloatZero

\* The last error of the count is taken, the mode not yet reset, and the
\* stdin thread is waiting to read the fields for its status panel.
C25_Witness ==
  /\ MidConsume
  /\ error_mode = CONTEXT_LENGTH /\ error_count = 0
  /\ stdin_pc = "print_status"

\* The responses a handler returns.
ResponseKinds == {"buffered", "streamed", "injected", "proxy_error"}

\* The handler of request r has returned one of them.
Answered(r) == reqs[r].pc = "done" /\ reqs[r].response.kind \in ResponseKinds

\* The response of a request, once built, is the one it keeps.
KeepsResponse ==
  \A r \in Requests : reqs[r].response # NoResponse => reqs'[r].response = reqs[r].response

\* A handler that has returned has returned a response.
ReturnedAnswered == \A r \in Requests : reqs[r].pc = "done" => Answered(r)

\* C24, as stated: every received request is answered in the end, with one
\* response, which is the upstream response, a synthesized error or the 500
\* envelope.
C24_EveryRequestAnswered ==
  /\ []ReturnedAnswered
  /\ [][KeepsResponse]_vars
  /\ \A r \in 1..MaxRequests :
       (request_count >= r) ~> (request_count >= r /\ Answered(r))

\* C24, amended: every received request is answered in the end, with one
\* response of these kinds, unless the serving loop is stopped while the
\* request is in flight.
C24_AnsweredWhileServing ==
  /\ []ReturnedAnswered
  /\ [][KeepsResponse]_vars
  /\ \A r \in 1..MaxRequests :
       (request_count >= r) ~> ((request_count >= r /\ Answered(r)) \/ LoopStopped)

\* Two requests have been answered while the proxy serves, one with a
\* synthesized error and one with the 500 envelope.
C24_Witness ==
  /\ main_pc = "serving"
  /\ request_count = 2
  /\ Answered(1) /\ Answered(2)
  /\ {reqs[1].response.kind, reqs[2].response.kind} = {"injected", "proxy_error"}

\* The step leaves request r alone or takes it one stage on: from the read of
\* the mode to the decision, from the decision to the synthesized error or to
\* the forwarding code, from there to the relayed response or the 500
\* envelope.  The decision is taken where it belongs and nowhere else, and
\* what a forwarded request does leaves mode, count and percentage alone.
PipelineStep(r) ==
  LET a == reqs[r]
      b == reqs'[r]
  IN \/ b = a
     \/ /\ a.pc = "get_error_mode" /\ b.pc = "should_inject_error"
        /\ ~Decided(r) /\ b.decision_mode = None
        /\ b.response = NoResponse /\ ~b.upstream_called
     \/ /\ a.pc = "should_inject_error" /\ b.pc \in {"done", "forward"}
        /\ ~Decided(r) /\ b.decision_mode # None
        /\ ~b.upstream_called
        /\ b.pc = "done" <=> b.should_error
        /\ b.pc = "done" <=> b.response.kind = "injected"
        /\ b.pc = "forward" <=> b.response = NoResponse
     \/ /\ a.pc = "forward" /\ b.pc = "done"
        /\ b.response.kind \in {"buffered", "streamed", "proxy_error"}
        /\ b.decision_mode = a.decision_mode /\ b.should_error = a.should_error
        /\ UNCHANGED injection
        /\ decided' = decided

\* C26: every request goes through the pipeline in order.  It arrives with
\* its provider detected, at the forwarding code if its path is always-forward
\* and before the decision otherwise; each of its steps takes it one stage on;
\* the decision is taken at most once and before any upstream call; and once
\* a request is forwarded no step of it injects an error or consumes a count,
\* whatever set_error_mode has installed since.
C26_PipelineOrder ==
  [][/\ \A r \in Requests : PipelineStep(r)
     /\ \A r \in (request_count + 1)..request_count' :
          /\ reqs'[r].pc = IF ExemptPath(reqs'[r].path) THEN "forward" ELSE "get_error_mode"
          /\ reqs'[r].provider \in Providers
          /\ reqs'[r].decision_mode = None /\ reqs'[r].response = NoResponse
          /\ ~reqs'[r].upstream_called]_vars

\* A request took its decision under NO_ERROR and was forwarded; the stdin
\* thread has since installed one context-length error; the request has been
\* answered from upstream and the error is still to come.
C26_Witness ==
  /\ request_count >= 1
  /\ ~ExemptPath(reqs[1].path)
  /\ reqs[1].decision_mode = NO_ERROR
  /\ reqs[1].response.kind = "streamed"
  /\ cmds_read = 1
  /\ last_set = [mode |-> CONTEXT_LENGTH, count |-> 1, percentage |-> FloatZero]
  /\ injection = <<CONTEXT_LENGTH, 1, FloatZero>>
  /\ decided = <<>>

\* Request r takes its decision in this step.
DecisionStep(r) == reqs[r].pc = "should_inject_error" /\ reqs'[r].pc # "should_inject_error"

\* The step is a decision in count mode that returns True: it consumes one
\* error of the count.
ConsumeStep ==
  /\ error_mode # NO_ERROR /\ ~FloatGt(error_percentage, FloatZero) /\ error_count > 0
  /\ \E r \in Requests : DecisionStep(r) /\ reqs'[r].should_error

\* What the consumption does: one off the count, and NO_ERROR at 0.
ConsumeEffect ==
  /\ error_count' = error_count - 1
  /\ error_mode' = IF error_count' = 0 THEN NO_ERROR ELSE error_mode
  /\ error_percentage' = error_percentage

\* The step is a decision that finds a mode other than NO_ERROR with count 0
\* and percentage 0.0 (as the command `c 0` leaves them).
ZeroCountStep ==
  /\ error_mode # NO_ERROR /\ error_percentage = FloatZero /\ error_count = 0
  /\ \E r \in Requests : DecisionStep(r)

Occurs(word, s) ==
  \E i \in 1..Len(s) :
    /\ i + Len(word) - 1 <= Len(s)
    /\ \A j \in 1..Len(word) : LowerChar(s[i + j - 1]) = word[j]

\* The path hints of a request with a bearer token, in their order: the words
\* and the provider they stand for.
PathHints ==
  << [words |-> {<<"a", "n", "t", "h", "r", "o", "p", "i", "c">>, <<"m", "e", "s", "s", "a", "g", "e", "s">>}, provider |-> "anthropic"],
     [words |-> {<<"g", "o", "o", "g", "l", "e">>, <<"g", "e", "n", "e", "r", "a", "t", "i", "v", "e", "l", "a", "n", "g", "u", "a", "g", "e">>}, provider |-> "google"],
     [words |-> {<<"o", "p", "e", "n", "r", "o", "u", "t", "e", "r">>}, provider |-> "openrouter"],
     [words |-> {<<"t", "e", "t", "r", "a", "t", "e">>}, provider |-> "tetrate"],
     [words |-> {<<"d", "a", "t", "a", "b", "r", "i", "c", "k", "s">>}, provider |-> "databricks"] >>

\* The provider of the first hint with a word in the path, else openai.
FirstHint(path) ==
  LET hits == {i \in 1..Len(PathHints) : \E w \in PathHints[i].words : Occurs(w, path)}
  IN IF hits = {} THEN "openai"
     ELSE PathHints[CHOOSE i \in hits : \A k \in hits : i <= k].provider

\* The precedence of provider detection, rule by rule.
Precedence(request) ==
  CASE \E m \in DatabricksMarkers : Occurs(m, request.path) -> "databricks"
    [] OTHER ->
       CASE "x-api-key" \in DOMAIN request.headers -> "anthropic"
         [] OTHER ->
            CASE "x-goog-api-key" \in DOMAIN request.headers -> "google"
              [] OTHER ->
                 IF /\ "authorization" \in DOMAIN request.headers
                    /\ Occurs(<<"b", "e", "a", "r", "e", "r">>, request.headers["authorization"])
                 THEN FirstHint(request.path)
                 ELSE "openai"

\* C28: detect_provider follows the precedence for every combination of path
\* and headers: a databricks marker in the path, then x-api-key, then
\* x-goog-api-key, then, with a bearer authorization, the first path hint in
\* the order anthropic/messages, google/generativelanguage, openrouter,
\* tetrate, databricks, else openai; and the result is one of the six
\* providers.
C28_DetectPrecedence ==
  output # <<>> => (output[1] = Precedence(input) /\ output[1] \in Providers)

\* A bearer request whose path names tetrate before openrouter is classified
\* as openrouter, the earlier hint.
C28_Witness ==
  /\ input.path = <<"/", "t", "e", "t", "r", "a", "t", "e", "/", "o", "p", "e", "n", "r", "o", "u", "t", "e", "r">>
  /\ DOMAIN input.headers = {"authorization"}
  /\ input.headers["authorization"] = Bearer
  /\ output = <<"openrouter">>

\* The variables of the registry that are set, by their place in the registry.
Configured(environ) ==
  {i \in 1..Len(PROVIDER_HOSTS) : real_host_env(PROVIDER_HOSTS[i].name) \in DOMAIN environ}

\* The host the precedence of the claim gives.
ResolveTargetHost(provider, request, environ) ==
  CASE real_host_env(provider) \in DOMAIN environ -> environ[real_host_env(provider)]
    [] OTHER ->
       IF should_always_forward(request) /\ Configured(environ) # {}
       THEN LET first == CHOOSE i \in Configured(environ) : \A k \in Configured(environ) : i <= k
            IN environ[real_host_env(PROVIDER_HOSTS[first].name)]
       ELSE provider_host(provider)

\* C29: the host of the target URL is the detected provider's own
\* <PROVIDER>_REAL_HOST when that is set; otherwise, on an always-forward path
\* and only there, the first *_REAL_HOST that is set, in registry order;
\* otherwise the provider's default host. On a path that is not
\* always-forward the host is never another provider's override.
C29_TargetHostPrecedence ==
  output # <<>> =>
    LET provider == detect_provider(input.request)
        host == output[1][1]
    IN /\ host = ResolveTargetHost(provider, input.request, input.environ)
       /\ Tail(output[1]) = input.request.path \o
            (IF input.request.query_string = <<>> THEN <<>>
             ELSE <<"?">> \o input.request.query_string)
       /\ (~should_always_forward(input.request)
            /\ real_host_env(provider) \notin DOMAIN input.environ)
           => host = provider_host(provider)

\* An always-forward path of a provider without an override, with the
\* overrides of anthropic and tetrate set: the request goes to anthropic's.
C29_Witness ==
  /\ input.request.path = <<"/", ".", "w", "e", "l", "l", "-", "k", "n", "o", "w", "n", "/", "x">>
  /\ DOMAIN input.request.headers = {"authorization"}
  /\ input.environ = [v \in {"ANTHROPIC_REAL_HOST", "TETRATE_REAL_HOST"} |-> RealHosts[v]]
  /\ output # <<>>
  /\ output[1][1] = "http://real-anthropic"

\* The modes every table has an entry for.
TemplateExists(provider, mode) ==
  provider \in Providers /\ mode \in {CONTEXT_LENGTH, RATE_LIMIT, SERVER_ERROR}

\* The lookup can be made for the input and gives a status and a body.
LookupAnswers ==
  /\ output = <<>> => ENABLED TemplateApply
  /\ output # <<>> => /\ DOMAIN output[1] = {"status", "body"}
                       /\ output[1].status \in {400, 429, 500, 503, 529}

HopByHop ==
  { <<"c", "o", "n", "n", "e", "c", "t", "i", "o", "n">>,
    <<"k", "e", "e", "p", "-", "a", "l", "i", "v", "e">>,
    <<"p", "r", "o", "x", "y", "-", "a", "u", "t", "h", "e", "n", "t", "i", "c", "a", "t", "e">>,
    <<"p", "r", "o", "x", "y", "-", "a", "u", "t", "h", "o", "r", "i", "z", "a", "t", "i", "o", "n">>,
    <<"t", "e">>,
    <<"t", "r", "a", "i", "l", "e", "r", "s">>,
    <<"t", "r", "a", "n", "s", "f", "e", "r", "-", "e", "n", "c", "o", "d", "i", "n", "g">>,
    <<"u", "p", "g", "r", "a", "d", "e">> }

\* The target URL: the host, the original path, and "?" with the original
\* query string when there is one.
TargetOf(request, host) ==
  <<host>> \o request.path \o
    (IF request.query_string = <<>> THEN <<>> ELSE <<"?">> \o request.query_string)

\* C31: a forwarded request is sent upstream with the original method and
\* body, to host + path + ("?" + query string when not empty), with exactly
\* the original header lines but the hop-by-hop ones, and without following
\* redirects: the status of the upstream answer, a 3xx too, is the status
\* relayed.
C31_ForwardedAsReceived ==
  output # <<>> =>
    /\ output[1].method = input.method
    /\ output[1].data = input.body
    /\ output[1].url = TargetOf(input, output[1].url[1])
    /\ output[1].url[1] \in {PROVIDER_HOSTS[i].host : i \in 1..Len(PROVIDER_HOSTS)}
    /\ output[1].headers = SelectSeq(input.headers, LAMBDA kv : Lower(kv[1]) \notin HopByHop)
    /\ ~output[1].allow_redirects
    /\ Len(output) = 2 => output[2].status = output[2].resp_status

\* The response the caller gets, once the handler has built it.
Relayed == IF output # <<>> /\ output[Len(output)].kind \in {"streamed", "buffered"}
           THEN <<output[Len(output)]>> ELSE <<>>

\* The header lines `items` without the names of `dropped`.
Without(items, dropped) == SelectSeq(items, LAMBDA kv : Lower(kv[1]) \notin dropped)

\* C32: in the buffered relay the caller receives the upstream status
\* unchanged, the whole upstream body, and the upstream header lines without
\* content-encoding and content-length; the response is built only after the
\* whole upstream body has been read.
C32_BufferedRelay ==
  (Relayed # <<>> /\ Relayed[1].kind = "buffered") =>
    /\ Relayed[1].status = input.status
    /\ Relayed[1].body = input.body
    /\ Relayed[1].headers = Without(input.headers, {<<"c", "o", "n", "t", "e", "n", "t", "-", "e", "n", "c", "o", "d", "i", "n", "g">>, <<"c", "o", "n", "t", "e", "n", "t", "-", "l", "e", "n", "g", "t", "h">>})
    /\ output[1].kind = "read" /\ output[1].body = input.body

\* C37: in both relays the headers sent to the caller are the upstream header
\* lines without connection, keep-alive, transfer-encoding, content-encoding
\* and content-length; the streamed relay filters as the buffered one does
\* and no upstream content-length or content-encoding reaches the caller.
C37_SameFilterBothRelays ==
  Relayed # <<>> =>
    /\ Relayed[1].headers =
         Without(input.headers, {<<"c", "o", "n", "n", "e", "c", "t", "i", "o", "n">>, <<"k", "e", "e", "p", "-", "a", "l", "i", "v", "e">>, <<"t", "r", "a", "n", "s", "f", "e", "r", "-", "e", "n", "c", "o", "d", "i", "n", "g">>, <<"c", "o", "n", "t", "e", "n", "t", "-", "e", "n", "c", "o", "d", "i", "n", "g">>, <<"c", "o", "n", "t", "e", "n", "t", "-", "l", "e", "n", "g", "t", "h">>})
    /\ \A i \in 1..Len(Relayed[1].headers) :
         Lower(Relayed[1].headers[i][1]) \notin {<<"c", "o", "n", "t", "e", "n", "t", "-", "e", "n", "c", "o", "d", "i", "n", "g">>, <<"c", "o", "n", "t", "e", "n", "t", "-", "l", "e", "n", "g", "t", "h">>}

\* The last set_error_mode installed an error mode at 100%: the command
\* `<letter> *`, letter c, r or u.
StarInstalled ==
  /\ last_set.mode # NO_ERROR
  /\ last_set.count = 0
  /\ last_set.percentage = FloatOne

\* C33: after an accepted `<letter> *` command and for as long as no further
\* command is accepted, mode, count and percentage stay as the command set
\* them, and every request that is not always-forward and takes its decision
\* gets the injected error of that mode: the template of its provider for the
\* mode.
C33_StarInjectsAlways ==
  StarInstalled =>
    /\ injection = <<last_set.mode, 0, FloatOne>>
    /\ \A i \in 1..Len(decided) :
         LET q == reqs[decided[i]]
             cfg == ERROR_CONFIGS(q.provider, last_set.mode)
         IN /\ q.should_error
            /\ q.response = [kind |-> "injected", status |-> cfg.status, body |-> cfg.body]

\* The stdin_reader ends in this step: it read `q`, or the end of input.
ShutdownSignal == stdin_pc = "reading" /\ stdin_pc' = "done"

\* C34: `q` and the end of input are a shutdown signal and no mode command.
\* The step that reads them leaves mode, count and percentage as they are and
\* schedules the stop of the loop; the stop is scheduled by no other step, so
\* exactly once; and the stdin_reader has ended: it reads no line and applies
\* no set_error_mode afterwards.
C34_QuitIsNoModeCommand ==
  [][/\ ShutdownSignal =>
          /\ UNCHANGED <<injection, last_set>>
          /\ ~stop_scheduled /\ stop_scheduled'
     /\ (stop_scheduled' /\ ~stop_scheduled) => ShutdownSignal
     /\ stdin_pc = "done" =>
          /\ stdin_pc' = "done"
          /\ UNCHANGED <<last_set, cmds_read, lines_read>>]_vars

\* The operator typed `c` and then `q`: the reader has ended, the stop is
\* scheduled, and the context-length error of `c` is still installed.
C34_Witness ==
  /\ lines_read = <<<<"c">>, <<"q">>>>
  /\ stdin_pc = "done"
  /\ stop_scheduled
  /\ main_pc = "serving"
  /\ injection = <<CONTEXT_LENGTH, 1, FloatZero>>

\* The last set_error_mode installed an error mode with count 0 and
\* percentage 0.0: `c 0`, `c 0%`, `c 0.0`.
ZeroInstalled ==
  /\ last_set.mode # NO_ERROR
  /\ last_set.count = 0
  /\ last_set.percentage = FloatZero

C36_MarkerImpliesExempt ==
  (/\ Len(output) = 2
   /\ output[1] = "databricks"
   /\ Occurs(<<"/", "o", "i", "d", "c", "/">>, input.path) \/ Occurs(<<"/", "a", "p", "i", "/", "2", ".", "0", "/">>, input.path))
  => output[2]

====
